---- MODULE Spec2Model ----
(***************************************************************************)
(* The NES emulator.  The APU (src/src/apu.rs): the register front-end,    *)
(* the frame sequencer, the four per-channel message queues and the audio  *)
(* callbacks that drain them.  The emulator thread runs the front-end      *)
(* handlers; every send on a queue is one step of that thread.  Each voice *)
(* is a callback on an audio thread: one step receives and applies one     *)
(* message, one step finds the queue empty and computes the sample.        *)
(* The CPU (src/src/cpu.rs): registers, status register, program counter   *)
(* and memory map; one step fetches, decodes and executes an instruction.  *)
(***************************************************************************)
EXTENDS Integers, Sequences, FiniteSets, TLC

VARIABLES
    ch1_register,   \* APU.ch1_register
    ch2_register,   \* APU.ch2_register
    ch3_register,   \* APU.ch3_register
    ch4_register,   \* APU.ch4_register
    frame_counter,  \* APU.frame_counter, the raw byte
    status,         \* APU.status, the raw byte
    cycles,         \* APU.cycles
    counter,        \* APU.counter
    op,             \* the handler the emulator thread called last, with its inputs and result
    emitted,        \* the sends of that handler, in program order: <<channel, message>>
    pc,             \* how many of them the emulator thread has executed
    panicked,       \* the emulator thread has panicked
    queue,          \* queue[c]: the messages in flight to voice c, oldest first
    square,         \* square[c], c in 1..2: the SquareWave of channel c
    triangle,       \* the TriangleWave (channel 3)
    noise,          \* the NoiseWave (channel 4)
    aud,            \* aud[c]: what the callback of voice c has observed (history)
    log,            \* log[c]: messages sent / applied on queue c (history, when switched on)
    nops,           \* number of handler calls made so far (counted up to the bound)
    nsteps,         \* number of sequencer steps taken so far
    since,          \* cycles passed to tick, and steps taken, since the last write of
                    \* the frame counter or construction (history)
    long_random,    \* NoiseWave.long_random
    short_random,   \* NoiseWave.short_random
    nclock,         \* number of calls of NoiseRandom::next so far (history)
    cpu_reg,        \* RP2A03.cpu_reg: A, X, Y, SP
    cpu_p_reg,      \* RP2A03.cpu_p_reg.p_reg
    cpu_pc,         \* RP2A03.cpu_pc.pc
    nes_mem,        \* RP2A03.nes_mem
    cpu_op,         \* the CPU operation executed last, with its inputs and result (history)
    overflow_checks \* the build panics on integer overflow (debug) or wraps (release)

apuvars == <<ch1_register, ch2_register, ch3_register, ch4_register, frame_counter,
             status, cycles, counter, op, emitted, pc, panicked, queue, square,
             triangle, noise, aud, log, nops, nsteps, since>>

lfsrvars == <<long_random, short_random, nclock>>

cpuvars == <<cpu_reg, cpu_p_reg, cpu_pc, nes_mem, cpu_op, overflow_checks>>

vars == <<ch1_register, ch2_register, ch3_register, ch4_register, frame_counter,
          status, cycles, counter, op, emitted, pc, panicked, queue, square,
          triangle, noise, aud, log, nops, nsteps, since, long_random, short_random,
          nclock, cpu_reg, cpu_p_reg, cpu_pc, nes_mem, cpu_op, overflow_checks>>

(***************************************************************************)
(* Bounds of the model.                                                    *)
(***************************************************************************)
\* handler calls of the emulator thread in the bridge specification
MaxOps == 2
\* sequencer steps in the sequencer specification
MaxSteps == 6
\* register writes in the length-counter specification
MaxWrites == 2
\* calls of NoiseRandom::next in the shift-register specification
MaxClocks == 32768
\* instructions executed in the CPU specification
MaxCpuSteps == 23
\* calls of the stack and memory functions in the memory specification
MaxMemOps == 2
\* sequencer steps in the accumulator specification
MaxAccSteps == 2

Channels == 1 .. 4

(***************************************************************************)
(* Bit arithmetic on bytes.                                                *)
(***************************************************************************)
RECURSIVE Pow2(_)
Pow2(n) == IF n = 0 THEN 1 ELSE 2 * Pow2(n - 1)

\* bit n of v
Bit(v, n) == (v \div Pow2(n)) % 2

\* v with bit n set / cleared
SetBit(v, n) == IF Bit(v, n) = 1 THEN v ELSE v + Pow2(n)
ClearBit(v, n) == IF Bit(v, n) = 1 THEN v - Pow2(n) ELSE v

(***************************************************************************)
(* Tables.                                                                 *)
(***************************************************************************)
LENGTH_COUNTER_TBL ==
    <<5, 127, 10, 1, 20, 2, 40, 3,
      80, 4, 30, 5, 7, 6, 13, 7,
      6, 8, 12, 9, 24, 10, 48, 11,
      96, 12, 36, 13, 8, 14, 16, 15>>

NOISE_TBL ==
    <<2, 4, 8, 16, 32, 48, 64, 80, 101, 127, 190, 254, 381, 508, 1017, 2034>>

\* LENGTH_COUNTER_TBL[i as usize]: the index is 0-based in the source; an index
\* outside the table panics there and is no value here
LengthOf(i) == LENGTH_COUNTER_TBL[i + 1]

(***************************************************************************)
(* Channel registers.                                                      *)
(***************************************************************************)
Ch1RegisterNew ==
    [volume |-> 0, envelope_flag |-> FALSE, key_off_counter_flag |-> FALSE, duty |-> 0,
     sweep_change_amount |-> 0, sweep_direction |-> 0, sweep_timer_count |-> 0,
     sweep_enabled |-> FALSE, frequency |-> 0, key_off_count |-> 0]

Ch2RegisterNew ==
    [volume |-> 0, envelope_flag |-> FALSE, key_off_counter_flag |-> FALSE, duty |-> 0,
     sweep_change_amount |-> 0, sweep_direction |-> 0, sweep_timer_count |-> 0,
     sweep_enabled |-> FALSE, frequency |-> 0, key_off_count |-> 0]

Ch3RegisterNew ==
    [length |-> 0, key_off_counter_flag |-> FALSE, frequency |-> 0, key_off_count |-> 0]

Ch4RegisterNew ==
    [volume |-> 0, envelope_flag |-> FALSE, key_off_counter_flag |-> FALSE,
     frequency |-> 0, kind |-> "Long", key_off_count |-> 0]

\* a faulty variant: the write of the third register adds the byte to the period
SquareRegisterWriteAccumulates(r, base, addr, value) ==
    CASE addr = base ->
           [r EXCEPT !.volume = value % 16,
                     !.envelope_flag = (Bit(value, 4) = 0),
                     !.key_off_counter_flag = (Bit(value, 5) = 0),
                     !.duty = value \div 64]
      [] addr = base + 1 ->
           [r EXCEPT !.sweep_change_amount = value % 8,
                     !.sweep_direction = Bit(value, 3),
                     !.sweep_timer_count = (value \div 16) % 8,
                     !.sweep_enabled = (Bit(value, 7) = 1)]
      [] addr = base + 2 ->
           [r EXCEPT !.frequency = (r.frequency + value) % 2048]
      [] addr = base + 3 ->
           [r EXCEPT !.frequency = (r.frequency % 256) + ((value % 8) * 256),
                     !.key_off_count = value \div 8]

\* the register write of a square channel whose window starts at base
\* ($4000 = 16384 for channel 1, $4004 = 16388 for channel 2)
SquareRegisterWrite(r, base, addr, value) ==
    CASE addr = base ->
           [r EXCEPT !.volume = value % 16,
                     !.envelope_flag = (Bit(value, 4) = 0),
                     !.key_off_counter_flag = (Bit(value, 5) = 0),
                     !.duty = value \div 64]
      [] addr = base + 1 ->
           [r EXCEPT !.sweep_change_amount = value % 8,
                     !.sweep_direction = Bit(value, 3),
                     !.sweep_timer_count = (value \div 16) % 8,
                     !.sweep_enabled = (Bit(value, 7) = 1)]
      [] addr = base + 2 ->
           [r EXCEPT !.frequency = (((r.frequency \div 256) % 8) * 256) + value]
      [] addr = base + 3 ->
           [r EXCEPT !.frequency = (r.frequency % 256) + ((value % 8) * 256),
                     !.key_off_count = value \div 8]

Ch1RegisterWrite(r, addr, value) == SquareRegisterWrite(r, 16384, addr, value)

Ch2RegisterWrite(r, addr, value) == SquareRegisterWrite(r, 16388, addr, value)

\* $4008 = 16392 .. $400B = 16395
Ch3RegisterWrite(r, addr, value) ==
    CASE addr = 16392 ->
           [r EXCEPT !.length = value % 128,
                     !.key_off_counter_flag = (Bit(value, 7) = 0)]
      [] addr = 16393 -> r
      [] addr = 16394 ->
           [r EXCEPT !.frequency = (((r.frequency \div 256) % 8) * 256) + value]
      [] addr = 16395 ->
           [r EXCEPT !.frequency = (r.frequency % 256) + ((value % 8) * 256),
                     !.key_off_count = value \div 8]

\* the addresses Ch4Register::write has an arm for: $400C, $400E, $400F;
\* every other address, $400D included, panics
Ch4RegisterAccepts(addr) == addr \in {16396, 16398, 16399}

Ch4RegisterWrite(r, addr, value) ==
    CASE addr = 16396 ->
           [r EXCEPT !.volume = value % 16,
                     !.envelope_flag = (Bit(value, 4) = 0),
                     !.key_off_counter_flag = (Bit(value, 5) = 0)]
      [] addr = 16398 ->
           [r EXCEPT !.frequency = value % 16,
                     !.kind = IF Bit(value, 7) = 0 THEN "Long" ELSE "Short"]
      [] addr = 16399 ->
           [r EXCEPT !.key_off_count = value \div 8]

(***************************************************************************)
(* Envelope.                                                               *)
(***************************************************************************)
EnvelopeNew(rate, enabled, loop_flag) ==
    [rate |-> rate, enabled |-> enabled, loop_flag |-> loop_flag,
     counter |-> 15, division_period |-> (rate + 1) % 256]

\* a faulty variant: the divider is reloaded to rate
EnvelopeResetToRate(e) == [e EXCEPT !.counter = 15, !.division_period = e.rate]

EnvelopeReset(e) ==
    [e EXCEPT !.counter = 15, !.division_period = (e.rate + 1) % 256]

\* a faulty variant: the decay counter is reloaded whether loop_flag is set or not
EnvelopeTickAlwaysLoops(e) ==
    LET d == (e.division_period + 255) % 256
    IN  IF d # 0
        THEN [e EXCEPT !.division_period = d]
        ELSE IF e.counter # 0
             THEN [e EXCEPT !.counter = e.counter - 1,
                            !.division_period = (e.rate + 1) % 256]
             ELSE EnvelopeReset(e)

\* division_period is a u8: the decrement of 0 is an overflow, which panics in a
\* debug build and wraps in a release build; the value here is the wrapped one
EnvelopeTick(e) ==
    LET d == (e.division_period + 255) % 256
    IN  IF d # 0
        THEN [e EXCEPT !.division_period = d]
        ELSE IF e.counter # 0
             THEN [e EXCEPT !.counter = e.counter - 1,
                            !.division_period = (e.rate + 1) % 256]
             ELSE IF e.loop_flag
                  THEN EnvelopeReset(e)
                  ELSE [e EXCEPT !.division_period = (e.rate + 1) % 256]

\* the numerator of volume(), which is this over 15.0
EnvelopeVolume(e) == IF e.enabled THEN e.counter ELSE e.rate

(***************************************************************************)
(* Length counter.                                                         *)
(***************************************************************************)
LengthCounterNew(enabled, cnt) ==
    [enabled |-> enabled, count |-> cnt, counter |-> cnt]

\* a faulty variant: the two directions are exchanged
SweepTickSwapped(s) ==
    IF ~s.enabled
    THEN s
    ELSE IF s.change_amount = 0
    THEN s
    ELSE LET c == (s.counter + 1) % 256
         IN  IF c < s.timer_count + 1
             THEN [s EXCEPT !.counter = c]
             ELSE LET d == s.frequency \div Pow2(s.change_amount)
                      f == IF s.direction = 0
                           THEN (s.frequency - d) % 65536
                           ELSE (s.frequency + d) % 65536
                  IN  [s EXCEPT !.counter = 0,
                                !.frequency = IF f < 8 \/ f >= 2047 THEN 0 ELSE f]

\* a faulty variant: the counter stops at 1 and never reaches 0
LengthCounterTickStopsAtOne(l) ==
    IF ~l.enabled
    THEN l
    ELSE IF l.counter > 1 THEN [l EXCEPT !.counter = l.counter - 1] ELSE l

LengthCounterTick(l) ==
    IF ~l.enabled
    THEN l
    ELSE IF l.counter > 0 THEN [l EXCEPT !.counter = l.counter - 1] ELSE l

LengthCounterMute(l) == l.enabled /\ l.counter = 0

LengthCounterReset(l) == [l EXCEPT !.counter = l.count]

(***************************************************************************)
(* Sweep.                                                                  *)
(***************************************************************************)
SweepNew(frequency, change_amount, direction, timer_count, enabled) ==
    [org_freq |-> frequency, frequency |-> frequency, change_amount |-> change_amount,
     direction |-> direction, timer_count |-> timer_count, enabled |-> enabled,
     counter |-> 0]

\* frequency is a u16 and counter a u8
SweepTick(s) ==
    IF ~s.enabled
    THEN s
    ELSE IF s.change_amount = 0
    THEN s
    ELSE LET c == (s.counter + 1) % 256
         IN  IF c < s.timer_count + 1
             THEN [s EXCEPT !.counter = c]
             ELSE LET d == s.frequency \div Pow2(s.change_amount)
                      f == IF s.direction = 0
                           THEN (s.frequency + d) % 65536
                           ELSE (s.frequency - d) % 65536
                  IN  [s EXCEPT !.counter = 0,
                                !.frequency = IF f < 8 \/ f >= 2047 THEN 0 ELSE f]

SweepReset(s) == [s EXCEPT !.frequency = s.org_freq, !.counter = 0]

(***************************************************************************)
(* Messages: SquareEvent, TriangleEvent, NoiseEvent.                       *)
(***************************************************************************)
NoteMsg(n) == [type |-> "Note", note |-> n]

EnableMsg(b) == [type |-> "Enable", enable |-> b]

EnvelopeMsg(e) == [type |-> "Envelope", envelope |-> e]

LengthCounterMsg(l) == [type |-> "LengthCounter", length_counter |-> l]

SweepMsg(s) == [type |-> "Sweep", sweep |-> s]

EnvelopeTickMsg == [type |-> "EnvelopeTick"]

LengthCounterTickMsg == [type |-> "LengthCounterTick"]

SweepTickMsg == [type |-> "SweepTick"]

ResetMsg == [type |-> "Reset"]

\* one send of a handler: the queue it goes to, the message, and (history) whether
\* it is the last send of a register-write burst; a message that is not part of a
\* burst (a tick, an Enable) is a burst of its own
SendOf(c, m, last) == [ch |-> c, msg |-> m, last |-> last]

\* the sends of one register-write burst to channel c
Burst(c, msgs) == [i \in 1 .. Len(msgs) |-> SendOf(c, msgs[i], i = Len(msgs))]

(***************************************************************************)
(* The voices.                                                             *)
(***************************************************************************)
SquareNoteNew == [duty |-> 0]

TriangleNoteNew == [frequency |-> 0]

\* the state init_square gives a SquareWave
SquareWaveNew ==
    [enabled |-> TRUE, note |-> SquareNoteNew,
     envelope |-> EnvelopeNew(0, FALSE, FALSE),
     length_counter |-> LengthCounterNew(FALSE, 0),
     sweep |-> SweepNew(0, 0, 0, 0, FALSE)]

\* the state init_triangle gives the TriangleWave
TriangleWaveNew ==
    [enabled |-> TRUE, note |-> TriangleNoteNew,
     length_counter |-> LengthCounterNew(FALSE, 0)]

\* the state init_noise gives the NoiseWave; hz is kept as its divisor d
\* (hz = CPU_CLOCK / d, d = 0 for the initial 0.0) and volume as its numerator over 15
NoiseWaveNew ==
    [enabled |-> TRUE, note |-> [hz_div |-> 0, is_long |-> TRUE, volume |-> 0],
     envelope |-> EnvelopeNew(0, FALSE, FALSE),
     length_counter |-> LengthCounterNew(FALSE, 0)]

\* a faulty variant: a new envelope takes over the decay counter of the old one
SquareApplyKeepsDecay(w, m) ==
    CASE m.type = "Note" -> [w EXCEPT !.note = m.note]
      [] m.type = "Envelope" ->
           [w EXCEPT !.envelope = [m.envelope EXCEPT !.counter = w.envelope.counter]]
      [] m.type = "EnvelopeTick" -> [w EXCEPT !.envelope = EnvelopeTick(w.envelope)]
      [] m.type = "Enable" -> [w EXCEPT !.enabled = m.enable]
      [] m.type = "LengthCounter" -> [w EXCEPT !.length_counter = m.length_counter]
      [] m.type = "LengthCounterTick" ->
           [w EXCEPT !.length_counter = LengthCounterTick(w.length_counter)]
      [] m.type = "Sweep" -> [w EXCEPT !.sweep = m.sweep]
      [] m.type = "SweepTick" -> [w EXCEPT !.sweep = SweepTick(w.sweep)]
      [] m.type = "Reset" ->
           [w EXCEPT !.envelope = EnvelopeReset(w.envelope),
                     !.length_counter = LengthCounterReset(w.length_counter),
                     !.sweep = SweepReset(w.sweep)]

\* the match of SquareWave::callback on a received event
SquareApply(w, m) ==
    CASE m.type = "Note" -> [w EXCEPT !.note = m.note]
      [] m.type = "Envelope" -> [w EXCEPT !.envelope = m.envelope]
      [] m.type = "EnvelopeTick" -> [w EXCEPT !.envelope = EnvelopeTick(w.envelope)]
      [] m.type = "Enable" -> [w EXCEPT !.enabled = m.enable]
      [] m.type = "LengthCounter" -> [w EXCEPT !.length_counter = m.length_counter]
      [] m.type = "LengthCounterTick" ->
           [w EXCEPT !.length_counter = LengthCounterTick(w.length_counter)]
      [] m.type = "Sweep" -> [w EXCEPT !.sweep = m.sweep]
      [] m.type = "SweepTick" -> [w EXCEPT !.sweep = SweepTick(w.sweep)]
      [] m.type = "Reset" ->
           [w EXCEPT !.envelope = EnvelopeReset(w.envelope),
                     !.length_counter = LengthCounterReset(w.length_counter),
                     !.sweep = SweepReset(w.sweep)]

\* the match of TriangleWave::callback
TriangleApply(w, m) ==
    CASE m.type = "Note" -> [w EXCEPT !.note = m.note]
      [] m.type = "Enable" -> [w EXCEPT !.enabled = m.enable]
      [] m.type = "LengthCounter" -> [w EXCEPT !.length_counter = m.length_counter]
      [] m.type = "LengthCounterTick" ->
           [w EXCEPT !.length_counter = LengthCounterTick(w.length_counter)]
      [] m.type = "Reset" ->
           [w EXCEPT !.length_counter = LengthCounterReset(w.length_counter)]

\* the match of NoiseWave::callback
NoiseApply(w, m) ==
    CASE m.type = "Note" -> [w EXCEPT !.note = m.note]
      [] m.type = "Enable" -> [w EXCEPT !.enabled = m.enable]
      [] m.type = "Envelope" -> [w EXCEPT !.envelope = m.envelope]
      [] m.type = "EnvelopeTick" -> [w EXCEPT !.envelope = EnvelopeTick(w.envelope)]
      [] m.type = "LengthCounter" -> [w EXCEPT !.length_counter = m.length_counter]
      [] m.type = "LengthCounterTick" ->
           [w EXCEPT !.length_counter = LengthCounterTick(w.length_counter)]
      [] m.type = "Reset" ->
           [w EXCEPT !.envelope = EnvelopeReset(w.envelope),
                     !.length_counter = LengthCounterReset(w.length_counter)]

\* the voice of channel c
VoiceOf(c) == IF c \in {1, 2} THEN square[c] ELSE IF c = 3 THEN triangle ELSE noise

(***************************************************************************)
(* The front-end: what each handler sends.                                 *)
(***************************************************************************)
\* a faulty variant: Reset is sent after a write to any of the four registers
SquareSendsAlwaysReset(c, r, reset) ==
    Burst(c,
          <<NoteMsg([duty |-> r.duty]),
            EnvelopeMsg(EnvelopeNew(r.volume, r.envelope_flag, ~r.key_off_counter_flag)),
            LengthCounterMsg(LengthCounterNew(r.key_off_counter_flag,
                                              LengthOf(r.key_off_count))),
            SweepMsg(SweepNew(r.frequency, r.sweep_change_amount, r.sweep_direction,
                              r.sweep_timer_count, r.sweep_enabled)),
            ResetMsg>>)

\* the sends of write1ch / write2ch for channel c with registers r (after the
\* register write); reset: the address is the channel's fourth register
SquareSends(c, r, reset) ==
    Burst(c,
          <<NoteMsg([duty |-> r.duty]),
            EnvelopeMsg(EnvelopeNew(r.volume, r.envelope_flag, ~r.key_off_counter_flag)),
            LengthCounterMsg(LengthCounterNew(r.key_off_counter_flag,
                                              LengthOf(r.key_off_count))),
            SweepMsg(SweepNew(r.frequency, r.sweep_change_amount, r.sweep_direction,
                              r.sweep_timer_count, r.sweep_enabled))>>
          \o (IF reset THEN <<ResetMsg>> ELSE <<>>))

\* the sends of write3ch: r is ch3_register after the write, r2 is ch2_register,
\* whose frequency the Note carries
TriangleSends(r, r2, reset) ==
    Burst(3,
          <<NoteMsg([frequency |-> r2.frequency]),
            LengthCounterMsg(LengthCounterNew(r.key_off_counter_flag,
                                              LengthOf(r.key_off_count)))>>
          \o (IF reset THEN <<ResetMsg>> ELSE <<>>))

\* a faulty variant: the envelope loops when the length counter is enabled
NoiseSendsLoopNotNegated(r, reset) ==
    Burst(4,
          <<NoteMsg([hz_div |-> NOISE_TBL[r.frequency + 1],
                     is_long |-> (r.kind = "Long"),
                     volume |-> r.volume]),
            EnvelopeMsg(EnvelopeNew(r.volume, r.envelope_flag, r.key_off_counter_flag)),
            LengthCounterMsg(LengthCounterNew(r.key_off_counter_flag,
                                              LengthOf(r.key_off_count)))>>
          \o (IF reset THEN <<ResetMsg>> ELSE <<>>))

\* the sends of write4ch
NoiseSends(r, reset) ==
    Burst(4,
          <<NoteMsg([hz_div |-> NOISE_TBL[r.frequency + 1],
                     is_long |-> (r.kind = "Long"),
                     volume |-> r.volume]),
            EnvelopeMsg(EnvelopeNew(r.volume, r.envelope_flag, ~r.key_off_counter_flag)),
            LengthCounterMsg(LengthCounterNew(r.key_off_counter_flag,
                                              LengthOf(r.key_off_count)))>>
          \o (IF reset THEN <<ResetMsg>> ELSE <<>>))

\* send_envelope_tick
SendEnvelopeTick ==
    <<SendOf(1, EnvelopeTickMsg, TRUE), SendOf(2, EnvelopeTickMsg, TRUE),
      SendOf(4, EnvelopeTickMsg, TRUE)>>

\* send_length_counter_tick
SendLengthCounterTick ==
    <<SendOf(1, LengthCounterTickMsg, TRUE), SendOf(2, LengthCounterTickMsg, TRUE),
      SendOf(3, LengthCounterTickMsg, TRUE), SendOf(4, LengthCounterTickMsg, TRUE)>>

\* send_sweep_tick
SendSweepTick ==
    <<SendOf(1, SweepTickMsg, TRUE), SendOf(2, SweepTickMsg, TRUE)>>

\* a faulty variant: the noise channel is enabled by bit 4
StatusSendsNoiseBit4(st) ==
    <<SendOf(1, EnableMsg(Bit(st, 0) = 1), TRUE), SendOf(2, EnableMsg(Bit(st, 1) = 1), TRUE),
      SendOf(3, EnableMsg(Bit(st, 2) = 1), TRUE), SendOf(4, EnableMsg(Bit(st, 4) = 1), TRUE)>>

\* the sends of write_status, from the status byte after the update
StatusSends(st) ==
    <<SendOf(1, EnableMsg(Bit(st, 0) = 1), TRUE), SendOf(2, EnableMsg(Bit(st, 1) = 1), TRUE),
      SendOf(3, EnableMsg(Bit(st, 2) = 1), TRUE), SendOf(4, EnableMsg(Bit(st, 3) = 1), TRUE)>>

\* FrameCounter::mode
FrameCounterMode(fc) == IF Bit(fc, 7) = 1 THEN 5 ELSE 4

\* StatusRegister::update and FrameCounter::update: the byte is stored as it is
StatusRegisterUpdate(data) == data

FrameCounterUpdate(data) == data

\* APU::irq
Irq == Bit(status, 6) = 1

\* the divider of the frame sequencer (the local `interval` of APU::tick)
Interval == 7457

\* a faulty variant: mode 4 clocks the length counters and sweeps at steps 1 and 3
StepSendsMode4Shifted(m, k) ==
    (IF k = 1 \/ k = 3 THEN SendLengthCounterTick \o SendSweepTick ELSE <<>>)
    \o (IF m = 4 \/ k <= 4 THEN SendEnvelopeTick ELSE <<>>)

\* a faulty variant: the envelope tick is sent before the other ticks
StepSendsEnvelopeFirst(m, k) ==
    (IF m = 4 \/ k <= 4 THEN SendEnvelopeTick ELSE <<>>)
    \o (IF (m = 4 /\ k \in {2, 4}) \/ (m = 5 /\ k \in {1, 3})
        THEN SendLengthCounterTick \o SendSweepTick ELSE <<>>)

\* the sends of the sequencer step that brings the step index to k in mode m
\* (empty for a mode that is neither 4 nor 5, where the source panics)
StepSends(m, k) ==
    IF m = 4
    THEN (IF k = 2 \/ k = 4 THEN SendLengthCounterTick \o SendSweepTick ELSE <<>>)
         \o SendEnvelopeTick
    ELSE (IF k = 1 \/ k = 3 THEN SendLengthCounterTick \o SendSweepTick ELSE <<>>)
         \o (IF k <= 4 THEN SendEnvelopeTick ELSE <<>>)

\* a faulty variant: mode 5 wraps one step late
StepCounterLateWrap(m, k) ==
    IF m = 4 THEN (IF k = 4 THEN 0 ELSE k) ELSE (IF k = 6 THEN 0 ELSE k)

\* the step index after that step
StepCounter(m, k) ==
    IF m = 4 THEN (IF k = 4 THEN 0 ELSE k) ELSE (IF k = 5 THEN 0 ELSE k)

\* a faulty variant: the fourth step raises the frame IRQ in mode 5 as well
StepStatusEveryMode(m, k, st) == IF k = 4 THEN SetBit(st, 6) ELSE st

\* a faulty variant: bit 6 of the frame-counter register inhibits the frame IRQ
StepStatusInhibited(m, k, st) ==
    IF m = 4 /\ k = 4 /\ Bit(frame_counter, 6) = 0 THEN SetBit(st, 6) ELSE st

\* the status byte after that step
StepStatus(m, k, st) == IF m = 4 /\ k = 4 THEN SetBit(st, 6) ELSE st

(***************************************************************************)
(* The emulator thread.                                                    *)
(***************************************************************************)
OpsCap == IF MaxOps > MaxWrites THEN MaxOps ELSE MaxWrites

\* the emulator thread is between two handler calls
Idle == pc = Len(emitted) /\ ~panicked

\* what every handler call records: op (history) and the sends it will make
Call(name, addr, value, res, step, sends) ==
    /\ Idle
    /\ op' = [name |-> name, seq |-> 1 - op.seq, addr |-> addr, value |-> value,
              res |-> res, step |-> step]
    /\ emitted' = sends
    /\ pc' = 0
    /\ nops' = IF nops < OpsCap THEN nops + 1 ELSE nops
    /\ UNCHANGED <<lfsrvars, cpuvars>>

Write1ch(addr, value) ==
    LET r == Ch1RegisterWrite(ch1_register, addr, value)
    IN  /\ Call("write1ch", addr, value, 0, 0, SquareSends(1, r, addr = 16387))
        /\ ch1_register' = r
        /\ UNCHANGED <<ch2_register, ch3_register, ch4_register, frame_counter, status,
                       cycles, counter, panicked, queue, square, triangle, noise, aud,
                       log, nsteps, since>>

Write2ch(addr, value) ==
    LET r == Ch2RegisterWrite(ch2_register, addr, value)
    IN  /\ Call("write2ch", addr, value, 0, 0, SquareSends(2, r, addr = 16391))
        /\ ch2_register' = r
        /\ UNCHANGED <<ch1_register, ch3_register, ch4_register, frame_counter, status,
                       cycles, counter, panicked, queue, square, triangle, noise, aud,
                       log, nsteps, since>>

Write3ch(addr, value) ==
    LET r == Ch3RegisterWrite(ch3_register, addr, value)
    IN  /\ Call("write3ch", addr, value, 0, 0, TriangleSends(r, ch2_register, addr = 16395))
        /\ ch3_register' = r
        /\ UNCHANGED <<ch1_register, ch2_register, ch4_register, frame_counter, status,
                       cycles, counter, panicked, queue, square, triangle, noise, aud,
                       log, nsteps, since>>

\* Ch4Register::write panics on an address it has no arm for, before anything is sent
Write4ch(addr, value) ==
    IF Ch4RegisterAccepts(addr)
    THEN LET r == Ch4RegisterWrite(ch4_register, addr, value)
         IN  /\ Call("write4ch", addr, value, 0, 0, NoiseSends(r, addr = 16399))
             /\ ch4_register' = r
             /\ UNCHANGED <<ch1_register, ch2_register, ch3_register, frame_counter,
                            status, cycles, counter, panicked, queue, square, triangle,
                            noise, aud, log, nsteps, since>>
    ELSE /\ Call("write4ch", addr, value, 0, 0, <<>>)
         /\ panicked' = TRUE
         /\ UNCHANGED <<ch1_register, ch2_register, ch3_register, ch4_register,
                        frame_counter, status, cycles, counter, queue, square, triangle,
                        noise, aud, log, nsteps, since>>

\* irq(): res is 1 for true and 0 for false
IrqCall ==
    /\ Call("irq", 0, 0, IF Irq THEN 1 ELSE 0, 0, <<>>)
    /\ UNCHANGED <<ch1_register, ch2_register, ch3_register, ch4_register, frame_counter,
                   status, cycles, counter, panicked, queue, square, triangle, noise,
                   aud, log, nsteps, since>>

\* a faulty variant: the read clears the whole status byte
ReadStatusClearsAll ==
    /\ Call("read_status", 16405, 0, status, 0, <<>>)
    /\ status' = 0
    /\ UNCHANGED <<ch1_register, ch2_register, ch3_register, ch4_register, frame_counter,
                   cycles, counter, panicked, queue, square, triangle, noise, aud, log,
                   nsteps, since>>

\* read_status: res is the byte returned
ReadStatus ==
    /\ Call("read_status", 16405, 0, status, 0, <<>>)
    /\ status' = ClearBit(status, 6)
    /\ UNCHANGED <<ch1_register, ch2_register, ch3_register, ch4_register, frame_counter,
                   cycles, counter, panicked, queue, square, triangle, noise, aud, log,
                   nsteps, since>>

WriteStatus(data) ==
    LET st == StatusRegisterUpdate(data)
    IN  /\ Call("write_status", 16405, data, 0, 0, StatusSends(st))
        /\ status' = st
        /\ UNCHANGED <<ch1_register, ch2_register, ch3_register, ch4_register,
                       frame_counter, cycles, counter, panicked, queue, square, triangle,
                       noise, aud, log, nsteps, since>>

\* a faulty variant: the step index survives the write
WriteFrameCounterKeepsCounter(value) ==
    /\ Call("write_frame_counter", 16407, value, 0, 0, <<>>)
    /\ frame_counter' = FrameCounterUpdate(value)
    /\ cycles' = 0
    /\ since' = [cyc |-> 0, steps |-> 0]
    /\ UNCHANGED <<ch1_register, ch2_register, ch3_register, ch4_register, status,
                   counter, panicked, queue, square, triangle, noise, aud, log, nsteps>>

\* write_frame_counter
WriteFrameCounter(value) ==
    /\ Call("write_frame_counter", 16407, value, 0, 0, <<>>)
    /\ frame_counter' = FrameCounterUpdate(value)
    /\ cycles' = 0
    /\ counter' = 0
    /\ since' = [cyc |-> 0, steps |-> 0]
    /\ UNCHANGED <<ch1_register, ch2_register, ch3_register, ch4_register, status,
                   panicked, queue, square, triangle, noise, aud, log, nsteps>>

\* a faulty variant: a step clears the accumulator
TickClearsCycles(c) ==
    LET acc == cycles + c
        m == FrameCounterMode(frame_counter)
        k == counter + 1
    IN  IF acc >= Interval
        THEN /\ Call("tick", 0, c, 0, k, StepSends(m, k))
             /\ cycles' = 0
             /\ counter' = StepCounter(m, k)
             /\ status' = StepStatus(m, k, status)
             /\ nsteps' = nsteps + 1
             /\ since' = [cyc |-> since.cyc + c, steps |-> since.steps + 1]
             /\ UNCHANGED <<ch1_register, ch2_register, ch3_register, ch4_register,
                            frame_counter, panicked, queue, square, triangle, noise, aud,
                            log>>
        ELSE /\ Call("tick", 0, c, 0, 0, <<>>)
             /\ cycles' = acc
             /\ since' = [since EXCEPT !.cyc = since.cyc + c]
             /\ UNCHANGED <<ch1_register, ch2_register, ch3_register, ch4_register,
                            frame_counter, status, counter, panicked, queue, square,
                            triangle, noise, aud, log, nsteps>>

\* tick(c): step is the step index the call brought the sequencer to before any
\* wrap (0: the call made no step)
Tick(c) ==
    LET acc == cycles + c
        m == FrameCounterMode(frame_counter)
        k == counter + 1
    IN  IF acc >= Interval
        THEN /\ Call("tick", 0, c, 0, k, StepSends(m, k))
             /\ cycles' = acc - Interval
             /\ counter' = StepCounter(m, k)
             /\ status' = StepStatus(m, k, status)
             /\ nsteps' = nsteps + 1
             /\ since' = [cyc |-> since.cyc + c, steps |-> since.steps + 1]
             /\ UNCHANGED <<ch1_register, ch2_register, ch3_register, ch4_register,
                            frame_counter, panicked, queue, square, triangle, noise, aud,
                            log>>
        ELSE /\ Call("tick", 0, c, 0, 0, <<>>)
             /\ cycles' = acc
             /\ since' = [since EXCEPT !.cyc = since.cyc + c]
             /\ UNCHANGED <<ch1_register, ch2_register, ch3_register, ch4_register,
                            frame_counter, status, counter, panicked, queue, square,
                            triangle, noise, aud, log, nsteps>>

\* send_length_counter_tick on its own: the one operation of the sequencer the
\* length counters react to
LengthTick ==
    /\ Call("send_length_counter_tick", 0, 0, 0, 0, SendLengthCounterTick)
    /\ UNCHANGED <<ch1_register, ch2_register, ch3_register, ch4_register, frame_counter,
                   status, cycles, counter, panicked, queue, square, triangle, noise,
                   aud, log, nsteps, since>>

\* send_envelope_tick and send_sweep_tick on their own
EnvelopeTickCall ==
    /\ Call("send_envelope_tick", 0, 0, 0, 0, SendEnvelopeTick)
    /\ UNCHANGED <<ch1_register, ch2_register, ch3_register, ch4_register, frame_counter,
                   status, cycles, counter, panicked, queue, square, triangle, noise,
                   aud, log, nsteps, since>>

SweepTickCall ==
    /\ Call("send_sweep_tick", 0, 0, 0, 0, SendSweepTick)
    /\ UNCHANGED <<ch1_register, ch2_register, ch3_register, ch4_register, frame_counter,
                   status, cycles, counter, panicked, queue, square, triangle, noise,
                   aud, log, nsteps, since>>

\* a faulty variant: the message overtakes the messages in flight
SendNewestFirst ==
    /\ pc < Len(emitted)
    /\ ~panicked
    /\ LET e == emitted[pc + 1]
       IN  /\ queue' = [queue EXCEPT ![e.ch] = <<[msg |-> e.msg, last |-> e.last]>> \o @]
           /\ log' = [log EXCEPT ![e.ch] =
                         IF @.on THEN [@ EXCEPT !.sent = Append(@, e.msg)] ELSE @]
    /\ pc' = pc + 1
    /\ UNCHANGED <<lfsrvars, cpuvars>>
    /\ UNCHANGED <<ch1_register, ch2_register, ch3_register, ch4_register, frame_counter,
                   status, cycles, counter, op, emitted, panicked, square, triangle,
                   noise, aud, nops, nsteps, since>>

\* the next send of the handler being executed
Send ==
    /\ pc < Len(emitted)
    /\ ~panicked
    /\ LET e == emitted[pc + 1]
       IN  /\ queue' = [queue EXCEPT ![e.ch] = Append(@, [msg |-> e.msg, last |-> e.last])]
           /\ log' = [log EXCEPT ![e.ch] =
                         IF @.on THEN [@ EXCEPT !.sent = Append(@, e.msg)] ELSE @]
    /\ pc' = pc + 1
    /\ UNCHANGED <<lfsrvars, cpuvars>>
    /\ UNCHANGED <<ch1_register, ch2_register, ch3_register, ch4_register, frame_counter,
                   status, cycles, counter, op, emitted, panicked, square, triangle,
                   noise, aud, nops, nsteps, since>>

(***************************************************************************)
(* The audio callbacks.                                                    *)
(***************************************************************************)
\* what the callback of a voice has observed after applying the queue entry e,
\* l being the voice's length counter after it (history): inBurst, a proper prefix
\* of a burst is applied; torn, the last sample was computed in a burst; last, the
\* type of the message; cfg, the type of the last message that was no tick; ticks, the length-counter ticks applied to an enabled
\* length counter since it was installed or reloaded, counted up to count + 1;
\* rec, the samples of this voice are recorded; fresh, a sample was written and
\* no event was applied since; x, that sample (0 when there is none)
Observed(a, e, l) ==
    [inBurst |-> ~e.last,
     torn |-> a.torn,
     rec |-> a.rec,
     x |-> 0,
     fresh |-> FALSE,
     last |-> e.msg.type,
     cfg |-> IF e.msg.type \in {"EnvelopeTick", "LengthCounterTick", "SweepTick"}
             THEN a.cfg ELSE e.msg.type,
     ticks |-> IF e.msg.type \in {"LengthCounter", "Reset"} THEN 0
               ELSE IF e.msg.type = "LengthCounterTick" /\ l.enabled /\ a.ticks <= l.count
                    THEN a.ticks + 1
                    ELSE a.ticks]

\* recv_timeout returned Ok(event): the event leaves the queue and is applied
AudioRecv(c) ==
    /\ queue[c] # <<>>
    /\ LET e == Head(queue[c])
           sq == IF c \in {1, 2} THEN SquareApply(square[c], e.msg) ELSE SquareWaveNew
           tr == IF c = 3 THEN TriangleApply(triangle, e.msg) ELSE triangle
           no == IF c = 4 THEN NoiseApply(noise, e.msg) ELSE noise
           l == IF c \in {1, 2} THEN sq.length_counter
                ELSE IF c = 3 THEN tr.length_counter ELSE no.length_counter
       IN  /\ square' = IF c \in {1, 2} THEN [square EXCEPT ![c] = sq] ELSE square
           /\ triangle' = tr
           /\ noise' = no
           /\ aud' = [aud EXCEPT ![c] = Observed(@, e, l)]
           /\ log' = [log EXCEPT ![c] =
                         IF @.on THEN [@ EXCEPT !.applied = Append(@, e.msg)] ELSE @]
    /\ queue' = [queue EXCEPT ![c] = Tail(@)]
    /\ UNCHANGED <<lfsrvars, cpuvars>>
    /\ UNCHANGED <<ch1_register, ch2_register, ch3_register, ch4_register, frame_counter,
                   status, cycles, counter, op, emitted, pc, panicked, nops, nsteps,
                   since>>

\* SquareNote::duty, in eighths of a period
SquareNoteDuty(n) ==
    CASE n.duty = 0 -> 1
      [] n.duty = 1 -> 2
      [] n.duty = 2 -> 4
      [] n.duty = 3 -> 6

\* The samples are kept in units of MASTER_VOLUME / 30 (1/120): a volume of
\* n/15 gives 2n, and the triangle at phase p/8 gives 15p - 30 or 15(8 - p) - 30.
\* The phase of a voice (eighths of a period) and the `value` of the noise voice
\* are inputs of the sample.

\* a faulty variant: the length counter does not silence the triangle
TriangleSampleNoMute(w, phase) ==
    IF ~w.enabled THEN 0
    ELSE (15 * (IF phase <= 4 THEN phase ELSE 8 - phase)) - 30

\* the sample SquareWave::callback writes once the queue is drained
SquareSample(w, phase) ==
    IF ~w.enabled THEN 0
    ELSE IF LengthCounterMute(w.length_counter) THEN 0
    ELSE IF phase <= SquareNoteDuty(w.note)
         THEN 2 * EnvelopeVolume(w.envelope)
         ELSE -(2 * EnvelopeVolume(w.envelope))

\* the sample TriangleWave::callback writes once the queue is drained
TriangleSample(w, phase) ==
    IF ~w.enabled THEN 0
    ELSE IF LengthCounterMute(w.length_counter) THEN 0
    ELSE (15 * (IF phase <= 4 THEN phase ELSE 8 - phase)) - 30

\* the sample NoiseWave::callback writes once the queue is drained
NoiseSample(w, value) ==
    IF ~w.enabled THEN 0
    ELSE IF LengthCounterMute(w.length_counter) THEN 0
    ELSE (IF value THEN 0 ELSE 1) * (2 * EnvelopeVolume(w.envelope))

\* the phases a sample is computed at: inside every duty, between the duties of
\* 12.5% and 50%, past 50%
Phases == {1, 2, 5}

\* the samples voice c can write in this state
Samples(c) ==
    IF c \in {1, 2} THEN {SquareSample(square[c], ph) : ph \in Phases}
    ELSE IF c = 3 THEN {TriangleSample(triangle, ph) : ph \in Phases}
    ELSE {NoiseSample(noise, v) : v \in BOOLEAN}

\* recv_timeout returned Err: the drain loop breaks and the sample is computed
AudioSample(c) ==
    /\ queue[c] = <<>>
    /\ \E x \in (IF aud[c].rec THEN Samples(c) ELSE {aud[c].x}) :
          aud' = [aud EXCEPT ![c].torn = aud[c].inBurst, ![c].x = x,
                             ![c].fresh = aud[c].rec]
    /\ UNCHANGED <<lfsrvars, cpuvars>>
    /\ UNCHANGED <<ch1_register, ch2_register, ch3_register, ch4_register, frame_counter,
                   status, cycles, counter, op, emitted, pc, panicked, queue, square,
                   triangle, noise, log, nops, nsteps, since>>

(***************************************************************************)
(* The noise shift register (NoiseRandom).                                 *)
(***************************************************************************)
\* NoiseRandom::long / NoiseRandom::short
NoiseRandomLong == [bit |-> 1, value |-> 1]

NoiseRandomShort == [bit |-> 6, value |-> 1]

\* a faulty variant: the feedback is not masked into bit 14
NoiseRandomNextNoFeedback(r) == [r EXCEPT !.value = r.value \div 2]

\* NoiseRandom::next: the register after the call (the bool returned is bit 0 of
\* its value)
NoiseRandomNext(r) ==
    LET b == (Bit(r.value, 0) + Bit(r.value, r.bit)) % 2
        v == r.value \div 2
    IN  [r EXCEPT !.value = (v % 16384) + (b * 16384)]

NoiseRandomOut(r) == Bit(r.value, 0) # 0

(***************************************************************************)
(* The CPU: bytes, the status register, the memory map, the stack.         *)
(***************************************************************************)
\* a byte built from its bits F(0) .. F(7)
ByteOf(F(_)) ==
    F(0) + (2 * F(1)) + (4 * F(2)) + (8 * F(3)) + (16 * F(4)) + (32 * F(5))
         + (64 * F(6)) + (128 * F(7))

\* the operators &, |, ^ and ! of u8
BitAnd(a, b) == LET f(n) == Bit(a, n) * Bit(b, n) IN ByteOf(f)
BitOr(a, b) == LET f(n) == IF Bit(a, n) + Bit(b, n) > 0 THEN 1 ELSE 0 IN ByteOf(f)
BitXor(a, b) == LET f(n) == (Bit(a, n) + Bit(b, n)) % 2 IN ByteOf(f)
BitNot(a) == 255 - a

NEGATIVE_FLG == 128
OVERFLOW_FLG == 64
R_FLG == 32
BREAK_COMMAND_FLG == 16
DECIMAL_MODE_FLG == 8
INTERRUPT_DISABLE_FLG == 4
ZERO_FLG == 2
CARRY_FLG == 1
ADDR_PRG_ROM == 32768

\* StatusRegister::new, cls_status_flg, set_status_flg, get_status_flg
StatusRegisterNew == R_FLG
ClsStatusFlg(p, flg) == BitAnd(p, BitNot(flg))
\* a faulty variant: the flag is toggled
SetStatusFlgToggles(p, flg) == BitXor(p, flg)
SetStatusFlg(p, flg) == BitOr(p, flg)
GetStatusFlg(p, flg) == BitAnd(p, flg) # 0

\* StatusRegister::nzv_flg_update: Z and N from val (V is not touched)
NzvFlgUpdate(p, val) ==
    LET z == IF val = 0 THEN SetStatusFlg(p, ZERO_FLG) ELSE ClsStatusFlg(p, ZERO_FLG)
    IN  IF BitAnd(val, 128) # 0
        THEN SetStatusFlg(z, NEGATIVE_FLG)
        ELSE ClsStatusFlg(z, NEGATIVE_FLG)

\* StatusRegister::c_flg_update_add: the status byte and the byte returned
CFlgUpdateAdd(p, val_a, val_b) ==
    IF val_a + val_b > 255
    THEN [p |-> SetStatusFlg(p, CARRY_FLG), ret |-> 0]
    ELSE [p |-> ClsStatusFlg(p, CARRY_FLG), ret |-> val_a + val_b]

\* StatusRegister::c_flg_update_r_shit: the status byte and the byte returned
CFlgUpdateRShit(p, val) ==
    [p |-> IF BitAnd(val, 1) # 0 THEN SetStatusFlg(p, CARRY_FLG)
           ELSE ClsStatusFlg(p, CARRY_FLG),
     ret |-> val \div 2]

\* an array of bytes that is 0 where nothing else was stored: the cells that are
\* not 0, by index
NoCells == [i \in {} |-> 0]
Cell(m, i) == IF i \in DOMAIN m THEN m[i] ELSE 0
Store(m, i, v) ==
    [j \in (IF v = 0 THEN DOMAIN m \ {i} ELSE DOMAIN m \cup {i}) |->
        IF j = i THEN v ELSE m[j]]

\* a Vec<u8> holding the bytes of the sequence s: its length and, as for an
\* array, the cells that are not 0
Vec(s) ==
    [len |-> Len(s), at |-> [i \in {j \in 0 .. Len(s) - 1 : s[j + 1] # 0} |-> s[i + 1]]]

\* NESMemory::new
NESMemoryNew ==
    [wram |-> NoCells, vram |-> NoCells, ppu_registers |-> NoCells,
     apu_registers |-> NoCells, chr_rom |-> Vec(<<>>), ext_ram |-> Vec(<<>>),
     prg_rom |-> Vec(<<>>)]

\* the read of element i (from 0) of a Vec or of an array of n bytes: ok is FALSE
\* when the index is out of bounds (the access panics)
VecRead(v, i) ==
    IF i < v.len THEN [ok |-> TRUE, val |-> Cell(v.at, i)] ELSE [ok |-> FALSE, val |-> 0]
ArrayRead(m, n, i) ==
    IF i < n THEN [ok |-> TRUE, val |-> Cell(m, i)] ELSE [ok |-> FALSE, val |-> 0]

\* a faulty variant: the mirrors of the work RAM repeat every $0400 bytes
MemReadMirror1K(mem, address) ==
    IF address <= 2047 THEN ArrayRead(mem.wram, 2048, address)
    ELSE IF address <= 8191 THEN ArrayRead(mem.wram, 2048, address % 1024)
    ELSE IF address <= 8199 THEN ArrayRead(mem.ppu_registers, 8, address - 8192)
    ELSE IF address <= 16383 THEN ArrayRead(mem.vram, 2048, address - 8192)
    ELSE IF address <= 16407 THEN ArrayRead(mem.apu_registers, 24, address - 16384)
    ELSE IF address <= 16415 THEN [ok |-> FALSE, val |-> 0]
    ELSE IF address <= 24575 THEN VecRead(mem.chr_rom, address - 16416)
    ELSE IF address <= 32767 THEN VecRead(mem.ext_ram, address - 24576)
    ELSE VecRead(mem.prg_rom, address - 32768)

\* NESMemory::mem_read: ok is FALSE when the read panics
MemRead(mem, address) ==
    IF address <= 2047 THEN ArrayRead(mem.wram, 2048, address)
    ELSE IF address <= 8191 THEN ArrayRead(mem.wram, 2048, address % 2048)
    ELSE IF address <= 8199 THEN ArrayRead(mem.ppu_registers, 8, address - 8192)
    ELSE IF address <= 16383 THEN ArrayRead(mem.vram, 2048, address - 8192)
    ELSE IF address <= 16407 THEN ArrayRead(mem.apu_registers, 24, address - 16384)
    ELSE IF address <= 16415 THEN [ok |-> FALSE, val |-> 0]
    ELSE IF address <= 24575 THEN VecRead(mem.chr_rom, address - 16416)
    ELSE IF address <= 32767 THEN VecRead(mem.ext_ram, address - 24576)
    ELSE VecRead(mem.prg_rom, address - 32768)

\* the write of element i of a Vec / of an array of n bytes
VecWrite(v, i, data) ==
    IF i < v.len
    THEN [ok |-> TRUE, to |-> [v EXCEPT !.at = Store(v.at, i, data)]]
    ELSE [ok |-> FALSE, to |-> v]
ArrayWrite(m, n, i, data) ==
    IF i < n THEN [ok |-> TRUE, to |-> Store(m, i, data)] ELSE [ok |-> FALSE, to |-> m]

\* the memory after the write w of an arm of mem_write (ok is FALSE when the
\* indexing panicked; to is the array or Vec written)
MemWritten(mem, address, w) ==
    [ok |-> w.ok,
     mem |-> IF ~w.ok THEN mem
             ELSE IF address <= 8191 THEN [mem EXCEPT !.wram = w.to]
             ELSE IF address <= 8199 THEN [mem EXCEPT !.ppu_registers = w.to]
             ELSE IF address <= 16383 THEN [mem EXCEPT !.vram = w.to]
             ELSE IF address <= 16407 THEN [mem EXCEPT !.apu_registers = w.to]
             ELSE IF address <= 24575 THEN [mem EXCEPT !.chr_rom = w.to]
             ELSE IF address <= 32767 THEN [mem EXCEPT !.ext_ram = w.to]
             ELSE [mem EXCEPT !.prg_rom = w.to]]

\* NESMemory::mem_write: the memory after the write; ok is FALSE when it panics
MemWrite(mem, address, data) ==
    MemWritten(mem, address,
               IF address <= 2047 THEN ArrayWrite(mem.wram, 2048, address, data)
               ELSE IF address <= 8191
                    THEN ArrayWrite(mem.wram, 2048, address % 2048, data)
               ELSE IF address <= 8199
                    THEN ArrayWrite(mem.ppu_registers, 8, address - 8192, data)
               ELSE IF address <= 16383
                    THEN ArrayWrite(mem.vram, 2048, address - 8192, data)
               ELSE IF address <= 16407
                    THEN ArrayWrite(mem.apu_registers, 24, address - 16384, data)
               ELSE IF address <= 16415 THEN [ok |-> FALSE, to |-> 0]
               ELSE IF address <= 24575
                    THEN VecWrite(mem.chr_rom, address - 16416, data)
               ELSE IF address <= 32767
                    THEN VecWrite(mem.ext_ram, address - 24576, data)
               ELSE VecWrite(mem.prg_rom, address - 32768, data))

(***************************************************************************)
(* The CPU: a state is a record of the fields of RP2A03 and panic, which   *)
(* tells that the step panicked (the record is then the state at the       *)
(* panic).  oc tells whether the build checks integer overflow.            *)
(***************************************************************************)
\* u8 + u8, u8 - u8 and u16 + 1: ok is FALSE when the operation panics
Add8(a, b, oc) ==
    IF a + b > 255 THEN [ok |-> ~oc, val |-> (a + b) % 256] ELSE [ok |-> TRUE, val |-> a + b]
Sub8(a, b, oc) ==
    IF a < b THEN [ok |-> ~oc, val |-> (a + 256) - b] ELSE [ok |-> TRUE, val |-> a - b]
Inc16(a, oc) ==
    IF a = 65535 THEN [ok |-> ~oc, val |-> 0] ELSE [ok |-> TRUE, val |-> a + 1]

\* u8 << 8: the shift amount is the width of the type, which panics with overflow
\* checks and is masked to 0 without them
Shl8(a, oc) == [ok |-> ~oc, val |-> a]

Panic(c) == [c EXCEPT !.panic = TRUE]

\* RP2A03::reset
Reset(c) == [c EXCEPT !.cpu_reg = [A |-> 0, X |-> 0, Y |-> 0, SP |-> 255]]

\* the RP2A03 built by cpu_test_func and cpu_reset, before reset()
RP2A03New ==
    [cpu_reg |-> [A |-> 0, X |-> 0, Y |-> 0, SP |-> 0],
     cpu_p_reg |-> StatusRegisterNew,
     cpu_pc |-> ADDR_PRG_ROM,
     nes_mem |-> NESMemoryNew,
     panic |-> FALSE]

\* RP2A03::push_stack
PushStack(c, data, oc) ==
    LET sp == c.cpu_reg.SP
        w == MemWrite(c.nes_mem, 256 + sp, data)
        dec == Sub8(sp, 1, oc)
    IN  IF ~w.ok THEN Panic(c)
        ELSE IF ~dec.ok THEN Panic([c EXCEPT !.nes_mem = w.mem])
        ELSE [c EXCEPT !.nes_mem = w.mem, !.cpu_reg.SP = dec.val]

\* RP2A03::pop_stack: the state after it and the byte returned
PopStack(c, oc) ==
    LET sp == c.cpu_reg.SP
        inc == Add8(sp, 1, oc)
        r == MemRead(c.nes_mem, 256 + sp)
    IN  IF ~inc.ok THEN [c |-> Panic(c), val |-> 0]
        ELSE IF ~r.ok THEN [c |-> Panic([c EXCEPT !.cpu_reg.SP = inc.val]), val |-> 0]
        ELSE [c |-> [c EXCEPT !.cpu_reg.SP = inc.val], val |-> r.val]

\* the opcode bytes decoded as STP: $02 $12 $22 $32 $42 $52 $62 $72 $92 $B2 $D2 $F2
StpOpcodes == {2, 18, 34, 50, 66, 82, 98, 114, 146, 178, 210, 242}

\* `return_addr = pop_stack(); return_addr |= pop_stack() << 8` of RTS and RTI:
\* the state after it and the u8 return_addr
PopReturnAddr(c, oc) ==
    LET Joined(lo, hi, sh) ==
            IF hi.c.panic THEN [c |-> hi.c, val |-> 0]
            ELSE IF ~sh.ok THEN [c |-> Panic(hi.c), val |-> 0]
            ELSE [c |-> hi.c, val |-> BitOr(lo.val, sh.val)]
        High(lo, hi) == Joined(lo, hi, Shl8(hi.val, oc))
        Low(lo) ==
            IF lo.c.panic THEN [c |-> lo.c, val |-> 0]
            ELSE High(lo, PopStack(lo.c, oc))
    IN  Low(PopStack(c, oc))

\* the two pushes of JSR and BRK: the low byte of the word, then its high byte
PushWord(c, w, oc) ==
    LET High(lo) == IF lo.panic THEN lo ELSE PushStack(lo, w \div 256, oc)
    IN  High(PushStack(c, w % 256, oc))

\* the arm BRK of execute_instruction, taken with the B flag clear
Brk(c, oc) ==
    LET Jump(q, lo, hi, sh) ==
            IF ~lo.ok \/ ~hi.ok \/ ~sh.ok THEN Panic(q) ELSE [q EXCEPT !.cpu_pc = sh.val]
        High(q, lo, hi) == Jump(q, lo, hi, Shl8(hi.val, oc))
        Vector(q) ==
            IF q.panic THEN q
            ELSE High(q, MemRead(q.nes_mem, 65534), MemRead(q.nes_mem, 65535))
        Flags(w) == IF w.panic THEN w ELSE Vector(PushStack(w, w.cpu_p_reg, oc))
        Pushes(inc) ==
            IF ~inc.ok THEN Panic(c)
            ELSE Flags(PushWord([c EXCEPT !.cpu_pc = inc.val,
                                          !.cpu_p_reg = SetStatusFlg(c.cpu_p_reg,
                                                                     BREAK_COMMAND_FLG)],
                                inc.val, oc))
    IN  Pushes(Inc16(c.cpu_pc, oc))

\* RP2A03::decode_instruction, for the opcodes of the programs executed here:
\* opcode byte |-> <<opcode_type, addr_mode>>
Opcodes ==
    [o \in {24, 56, 88, 120, 184, 216, 248, 169, 162, 160, 170, 168, 138, 152, 186,
             154, 9, 73, 41, 105, 76, 234, 72, 104, 8, 40, 0, 32, 64, 96, 74, 4, 12}
            \cup StpOpcodes |->
        CASE o = 24 -> <<"CLC", "IMPL">>
          [] o = 56 -> <<"SEC", "IMPL">>
          [] o = 88 -> <<"CLI", "IMPL">>
          [] o = 120 -> <<"SEI", "IMPL">>
          [] o = 184 -> <<"CLV", "IMPL">>
          [] o = 216 -> <<"CLD", "IMPL">>
          [] o = 248 -> <<"SED", "IMPL">>
          [] o = 169 -> <<"LDA", "IMM">>
          [] o = 162 -> <<"LDX", "IMM">>
          [] o = 160 -> <<"LDY", "IMM">>
          [] o = 170 -> <<"TAX", "IMPL">>
          [] o = 168 -> <<"TAY", "IMPL">>
          [] o = 138 -> <<"TXA", "IMPL">>
          [] o = 152 -> <<"TYA", "IMPL">>
          [] o = 186 -> <<"TSX", "IMPL">>
          [] o = 154 -> <<"TXS", "IMPL">>
          [] o = 9 -> <<"ORA", "IMM">>
          [] o = 73 -> <<"EOR", "IMM">>
          [] o = 41 -> <<"AND", "IMM">>
          [] o = 105 -> <<"ADC", "IMM">>
          [] o = 76 -> <<"JMP", "ABS">>
          [] o = 234 -> <<"NOP", "IMPL">>
          [] o = 72 -> <<"PHA", "IMPL">>
          [] o = 104 -> <<"PLA", "IMPL">>
          [] o = 8 -> <<"PHP", "IMPL">>
          [] o = 40 -> <<"PLP", "IMPL">>
          [] o = 0 -> <<"BRK", "IMPL">>
          [] o = 32 -> <<"JSR", "ABS">>
          [] o = 64 -> <<"RTI", "IMPL">>
          [] o = 96 -> <<"RTS", "IMPL">>
          [] o = 74 -> <<"LSR", "ACC">>
          [] o = 4 -> <<"NOP", "ZPG">>
          [] o = 12 -> <<"NOP", "ABS">>
          [] o \in StpOpcodes -> <<"STP", "IMPL">>]

DecodeInstruction(op_code) ==
    [opcode_type |-> Opcodes[op_code][1], addr_mode |-> Opcodes[op_code][2]]

\* RP2A03::read_operand (implied, accumulator, immediate, absolute, zero page):
\* the state after it and the Option returned
ReadOperand(c, addr_mode, oc) ==
    IF addr_mode = "IMPL" THEN [c |-> c, some |-> FALSE, val |-> 0]
    ELSE LET inc == Inc16(c.cpu_pc, oc)
             r == MemRead(c.nes_mem, inc.val)
             c1 == [c EXCEPT !.cpu_pc = inc.val]
         IN  IF ~inc.ok THEN [c |-> Panic(c), some |-> FALSE, val |-> 0]
             ELSE IF addr_mode = "ACC" THEN [c |-> c1, some |-> TRUE, val |-> c.cpu_reg.A]
             ELSE IF ~r.ok THEN [c |-> Panic(c1), some |-> FALSE, val |-> 0]
             ELSE [c |-> c1, some |-> TRUE, val |-> r.val]

\* the addressing modes for which execute_instruction reads a second operand
SecondOperandModes == {"IND", "IndX", "IndY", "ABS", "AbsX", "AbsY"}

\* the match of execute_instruction on the opcode type: the state after it and
\* jmp_flg; o and o2 are operand and operand_second
ExecuteOpcode(c, opcode_type, o, o2, oc) ==
    LET a == c.cpu_reg.A
        x == c.cpu_reg.X
        y == c.cpu_reg.Y
        p == c.cpu_p_reg
        Stay(d) == [c |-> d, jmp_flg |-> FALSE]
        Flag(q) == Stay([c EXCEPT !.cpu_p_reg = q])
        Load(r, v) == Stay(IF o.some THEN [c EXCEPT !.cpu_reg[r] = v] ELSE c)
    IN  CASE opcode_type = "NOP" -> Stay(c)
          [] opcode_type = "AND" -> Load("A", BitAnd(a, o.val))
          [] opcode_type = "ORA" -> Load("A", BitOr(a, o.val))
          [] opcode_type = "EOR" -> Load("A", BitXor(a, o.val))
          [] opcode_type = "ADC" ->
               IF ~o.some THEN Stay(c)
               ELSE LET carry == IF GetStatusFlg(p, CARRY_FLG) THEN 1 ELSE 0
                        result == Add8(a, carry, oc)
                        u == CFlgUpdateAdd(p, result.val, o.val)
                    IN  IF ~result.ok THEN Stay(Panic(c))
                        ELSE Stay([c EXCEPT !.cpu_reg.A = u.ret,
                                            !.cpu_p_reg = NzvFlgUpdate(u.p, result.val)])
          [] opcode_type = "LSR" ->
               LET Shifted(u, ret) ==
                       Stay([c EXCEPT !.cpu_reg.A = ret,
                                      !.cpu_p_reg = NzvFlgUpdate(u.p, ret)])
                   Masked(u) == Shifted(u, BitAnd(u.ret, 127))
               IN  Masked(CFlgUpdateRShit(p, a))
          [] opcode_type = "LDA" -> Load("A", o.val)
          [] opcode_type = "LDX" -> Load("X", o.val)
          [] opcode_type = "LDY" -> Load("Y", o.val)
          [] opcode_type = "TAX" -> Stay([c EXCEPT !.cpu_reg.X = a])
          [] opcode_type = "TAY" -> Stay([c EXCEPT !.cpu_reg.Y = a])
          [] opcode_type = "TXA" -> Stay([c EXCEPT !.cpu_reg.A = x])
          [] opcode_type = "TYA" -> Stay([c EXCEPT !.cpu_reg.A = y])
          [] opcode_type = "TSX" -> Stay([c EXCEPT !.cpu_reg.X = c.cpu_reg.SP])
          [] opcode_type = "TXS" -> Stay([c EXCEPT !.cpu_reg.SP = x])
          [] opcode_type = "PHA" -> Stay(PushStack(c, a, oc))
          [] opcode_type = "PHP" -> Stay(PushStack(c, p, oc))
          [] opcode_type = "PLA" ->
               LET r == PopStack(c, oc)
               IN  IF r.c.panic THEN Stay(r.c)
                   ELSE Stay([r.c EXCEPT !.cpu_reg.A = r.val,
                                         !.cpu_p_reg = NzvFlgUpdate(p, r.val)])
          [] opcode_type = "PLP" ->
               LET r == PopStack(c, oc)
               IN  IF r.c.panic THEN Stay(r.c) ELSE Stay([r.c EXCEPT !.cpu_p_reg = r.val])
          [] opcode_type = "CLC" -> Flag(ClsStatusFlg(p, CARRY_FLG))
          [] opcode_type = "CLD" -> Flag(ClsStatusFlg(p, DECIMAL_MODE_FLG))
          [] opcode_type = "CLI" -> Flag(ClsStatusFlg(p, INTERRUPT_DISABLE_FLG))
          [] opcode_type = "CLV" -> Flag(ClsStatusFlg(p, OVERFLOW_FLG))
          [] opcode_type = "SEC" -> Flag(SetStatusFlg(p, CARRY_FLG))
          [] opcode_type = "SED" -> Flag(SetStatusFlg(p, DECIMAL_MODE_FLG))
          [] opcode_type = "SEI" -> Flag(SetStatusFlg(p, INTERRUPT_DISABLE_FLG))
          [] opcode_type = "JSR" ->
               LET Jump(w) ==
                       IF w.panic THEN Stay(w)
                       ELSE [c |-> IF o.some
                                   THEN [w EXCEPT !.cpu_pc =
                                            o.val + (256 * (IF o2.some THEN o2.val ELSE 0))]
                                   ELSE w,
                             jmp_flg |-> TRUE]
                   Pushes(inc) ==
                       IF ~inc.ok THEN Stay(Panic(c))
                       ELSE Jump(PushWord([c EXCEPT !.cpu_pc = inc.val], inc.val, oc))
               IN  Pushes(Inc16(c.cpu_pc, oc))
          [] opcode_type = "RTI" ->
               LET Return(r) ==
                       IF r.c.panic THEN Stay(r.c) ELSE Stay([r.c EXCEPT !.cpu_pc = r.val])
                   Flags(st) ==
                       IF st.c.panic THEN Stay(st.c)
                       ELSE Return(PopReturnAddr([st.c EXCEPT !.cpu_p_reg = st.val], oc))
               IN  Flags(PopStack(c, oc))
          [] opcode_type = "RTS" ->
               LET Past(r, inc) ==
                       IF ~inc.ok THEN Stay(Panic(r.c))
                       ELSE Stay([r.c EXCEPT !.cpu_pc = inc.val])
                   Return(r) == IF r.c.panic THEN Stay(r.c) ELSE Past(r, Inc16(r.val, oc))
               IN  Return(PopReturnAddr(c, oc))
          [] opcode_type = "BRK" ->
               IF GetStatusFlg(p, BREAK_COMMAND_FLG) THEN Stay(c) ELSE Stay(Brk(c, oc))
          [] opcode_type = "STP" -> Stay(c)
          [] opcode_type = "JMP" ->
               [c |-> IF o.some
                      THEN [c EXCEPT !.cpu_pc =
                               o.val + (256 * (IF o2.some THEN o2.val ELSE 0))]
                      ELSE c,
                jmp_flg |-> TRUE]

\* a faulty variant: the program counter is incremented after a jump as well
ExecuteInstructionAlwaysIncrements(c, opcode, oc) ==
    LET o == ReadOperand(c, opcode.addr_mode, oc)
        o2 == IF opcode.addr_mode \in SecondOperandModes /\ ~o.c.panic
              THEN ReadOperand(o.c, opcode.addr_mode, oc)
              ELSE [c |-> o.c, some |-> FALSE, val |-> 0]
        e == ExecuteOpcode(o2.c, opcode.opcode_type, o, o2, oc)
        inc == Inc16(e.c.cpu_pc, oc)
    IN  IF o2.c.panic THEN o2.c
        ELSE IF e.c.panic THEN e.c
        ELSE IF ~inc.ok THEN Panic(e.c)
        ELSE [e.c EXCEPT !.cpu_pc = inc.val]

\* RP2A03::execute_instruction
ExecuteInstruction(c, opcode, oc) ==
    LET o == ReadOperand(c, opcode.addr_mode, oc)
        o2 == IF opcode.addr_mode \in SecondOperandModes /\ ~o.c.panic
              THEN ReadOperand(o.c, opcode.addr_mode, oc)
              ELSE [c |-> o.c, some |-> FALSE, val |-> 0]
        e == ExecuteOpcode(o2.c, opcode.opcode_type, o, o2, oc)
        inc == Inc16(e.c.cpu_pc, oc)
    IN  IF o2.c.panic THEN o2.c
        ELSE IF e.c.panic \/ e.jmp_flg THEN e.c
        ELSE IF ~inc.ok THEN Panic(e.c)
        ELSE [e.c EXCEPT !.cpu_pc = inc.val]

\* cpu_proc: fetch, decode, execute
CpuProcOf(c, oc) ==
    LET op_code == MemRead(c.nes_mem, c.cpu_pc)
    IN  IF ~op_code.ok THEN Panic(c)
        ELSE ExecuteInstruction(c, DecodeInstruction(op_code.val), oc)

(***************************************************************************)
(* Initial states.                                                         *)
(***************************************************************************)
\* what a callback has observed before its first call; rec: its samples are
\* recorded
AudNew(rec) ==
    [inBurst |-> FALSE, torn |-> FALSE, last |-> "none", cfg |-> "none", ticks |-> 0,
     x |-> 0, fresh |-> FALSE, rec |-> rec]

\* APU::new and the init_* functions: the state of the APU and of the voices
\* after construction, the samples of the voices in rec being recorded
Constructed(rec) ==
    /\ ch1_register = Ch1RegisterNew
    /\ ch2_register = Ch2RegisterNew
    /\ ch3_register = Ch3RegisterNew
    /\ ch4_register = Ch4RegisterNew
    /\ frame_counter = 192
    /\ status = 0
    /\ counter = 0
    /\ op = [name |-> "new", seq |-> 0, addr |-> 0, value |-> 0, res |-> 0, step |-> 0]
    /\ emitted = <<>>
    /\ pc = 0
    /\ panicked = FALSE
    /\ queue = [c \in Channels |-> <<>>]
    /\ square = [c \in {1, 2} |-> SquareWaveNew]
    /\ triangle = TriangleWaveNew
    /\ noise = NoiseWaveNew
    /\ aud = [c \in Channels |-> AudNew(c \in rec)]
    /\ nops = 0
    /\ nsteps = 0

Fresh == Constructed({})

NoLog == [c \in Channels |-> [on |-> FALSE, sent |-> <<>>, applied |-> <<>>]]

EmptyLog == [c \in Channels |-> [on |-> TRUE, sent |-> <<>>, applied |-> <<>>]]

\* the program of cpu_reset and of cpu_test_func: SEC SED SEI CLC CLD CLI CLV,
\* LDA #$0A TAX TXA LDA #$0B TAY TYA, ORA #$A0 EOR #$BA AND #$44, JMP $8000
TestRom ==
    <<56, 248, 120, 24, 216, 88, 184, 169, 10, 170, 138, 169, 11, 168, 152,
      9, 160, 73, 186, 41, 68, 76, 0, 128>>

\* the CPU built by cpu_reset and by cpu_test_func: reset(), V set, the program
TestCpu ==
    [Reset(RP2A03New) EXCEPT !.cpu_p_reg = SetStatusFlg(StatusRegisterNew, OVERFLOW_FLG),
                            !.nes_mem.prg_rom = Vec(TestRom)]

NoCpuOp ==
    [name |-> "none", seq |-> 0, addr |-> 0, val |-> 0, res |-> 0, sp |-> 0,
     steps |-> 0, panic |-> FALSE]

\* the CPU variables hold the state c and no operation was executed yet
CpuIs(c) ==
    /\ cpu_reg = c.cpu_reg
    /\ cpu_p_reg = c.cpu_p_reg
    /\ cpu_pc = c.cpu_pc
    /\ nes_mem = c.nes_mem
    /\ cpu_op = NoCpuOp

\* init_noise: the two shift registers of the noise voice
RandomFresh ==
    /\ long_random = NoiseRandomLong
    /\ short_random = NoiseRandomShort
    /\ nclock = 0

\* the state after construction (the operations of the APU front-end and of the
\* voices modelled here do no arithmetic that can overflow)
Init ==
    /\ Fresh
    /\ cycles = 0
    /\ since = [cyc |-> 0, steps |-> 0]
    /\ log = NoLog
    /\ RandomFresh
    /\ CpuIs(TestCpu)
    /\ overflow_checks = FALSE

(***************************************************************************)
(* Inputs.                                                                 *)
(***************************************************************************)
Ch1Addrs == 16384 .. 16387
Ch2Addrs == 16388 .. 16391
Ch3Addrs == 16392 .. 16395
Ch4Addrs == 16396 .. 16399

\* bytes written to the channel registers in the bridge specification:
\* $08 and $B5 differ in every field of every register
WriteValues == {8, 181}

\* bytes written to $4015
StatusValues == 0 .. 255

\* bytes written to $4017: mode 4, mode 4 with IRQ inhibit, mode 5
FrameValues == {0, 64, 128}

\* the byte written to $4015 in the sequencer specification: every bit but the
\* frame IRQ and the unused bit 5, which leaves every voice enabled
SeqStatusValues == {159}

\* the bytes of them written in the bridge specification
BridgeStatusValues == {0, 255}

BridgeFrameValues == {0}

\* CPU cycles passed to tick
TickCycles == {255}

\* every queue is drained
Quiet == \A c \in Channels : queue[c] = <<>>

(***************************************************************************)
(* The bridge: every handler, the sends and the callbacks, for a bounded   *)
(* number of handler calls.  The sequencer starts at the accumulator       *)
(* value Interval - 255: construction followed by ticks that make no step,   *)
(* which change nothing else, so that a tick within the bound makes a step.*)
(***************************************************************************)
BridgeInit ==
    /\ Fresh
    /\ cycles = Interval - 255
    /\ since = [cyc |-> cycles, steps |-> 0]
    /\ log = EmptyLog
    /\ RandomFresh
    /\ CpuIs(TestCpu)
    /\ overflow_checks = FALSE

Bounded == nops < MaxOps

Next ==
    \/ \E a \in Ch1Addrs, v \in WriteValues : Bounded /\ Write1ch(a, v)
    \/ \E a \in Ch2Addrs, v \in WriteValues : Bounded /\ Write2ch(a, v)
    \/ \E a \in Ch3Addrs, v \in WriteValues : Bounded /\ Write3ch(a, v)
    \/ \E a \in Ch4Addrs, v \in WriteValues : Bounded /\ Write4ch(a, v)
    \/ \E d \in BridgeStatusValues : Bounded /\ WriteStatus(d)
    \/ \E v \in BridgeFrameValues : Bounded /\ WriteFrameCounter(v)
    \/ Bounded /\ ReadStatus
    \/ \E c \in TickCycles : Bounded /\ Tick(c)
    \/ Send
    \/ \E c \in Channels : AudioRecv(c)
    \/ \E c \in Channels : AudioSample(c)

Spec == BridgeInit /\ [][Next]_vars

\* the bridge with the scheduling the threads have: the emulator thread goes on
\* with the handler it is in, and the audio device keeps calling every callback
FairSpec ==
    /\ Spec
    /\ WF_vars(Send)
    /\ \A c \in Channels : WF_vars(AudioRecv(c))

\* the messages in queue c, oldest first
InFlight(c) == [i \in 1 .. Len(queue[c]) |-> queue[c][i].msg]

WriteOps == {"write1ch", "write2ch", "write3ch", "write4ch"}

FourthRegisters == {16387, 16391, 16395, 16399}

\* the types of the messages of the last handler, in program order
EmittedTypes == [i \in 1 .. Len(emitted) |-> emitted[i].msg.type]

\* C3: no sample is computed from a voice state in which only a proper prefix of
\* a register-write burst has been applied.
C3_BurstAtomic == \A c \in Channels : ~aud[c].torn

\* C4: on every queue the messages sent are the messages applied followed by the
\* messages in flight, in order (applied exactly once, in send order, none dropped);
\* a send is never blocked; and once the emulator thread has stopped, every queue
\* is eventually drained.
C4_Fifo == \A c \in Channels : log[c].sent = log[c].applied \o InFlight(c)

C4_NeverBlocks == (pc < Len(emitted) /\ ~panicked) => ENABLED Send

C4_Stopped == panicked \/ (nops = MaxOps /\ pc = Len(emitted))

C4_Drained == \A c \in Channels : queue[c] = <<>>

C4_ExactlyOnceInOrder ==
    /\ [](C4_Fifo /\ C4_NeverBlocks)
    /\ C4_Stopped ~> C4_Drained

\* a tick has been applied between two configuration messages while more are in flight
C4_Witness ==
    \E c \in Channels :
        /\ Len(log[c].applied) >= 3
        /\ log[c].applied[2].type = "LengthCounterTick"
        /\ log[c].applied[1].type = "Enable"
        /\ queue[c] # <<>>

\* C5: a write to a register of a channel sends, to that channel's queue only and in
\* this order, Note, Envelope, LengthCounter, Sweep (square), Note, LengthCounter
\* (triangle), Note, Envelope, LengthCounter (noise), each built from the channel's
\* own registers after the write (a Reset may follow, see C6).
C5_Claimed(name) ==
    CASE name = "write1ch" -> SquareSends(1, ch1_register, FALSE)
      [] name = "write2ch" -> SquareSends(2, ch2_register, FALSE)
      [] name = "write3ch" ->
           Burst(3, <<NoteMsg([frequency |-> ch3_register.frequency]),
                      LengthCounterMsg(LengthCounterNew(
                          ch3_register.key_off_counter_flag,
                          LengthOf(ch3_register.key_off_count)))>>)
      [] name = "write4ch" -> NoiseSends(ch4_register, FALSE)

C5_BurstFromOwnRegisters ==
    op.name \in WriteOps =>
        LET want == C5_Claimed(op.name)
        IN  /\ Len(emitted) >= Len(want)
            /\ \A i \in 1 .. Len(want) :
                   emitted[i].ch = want[i].ch /\ emitted[i].msg = want[i].msg
            /\ \A i \in 1 .. Len(emitted) :
                   /\ emitted[i].ch = want[1].ch
                   /\ i > Len(want) => emitted[i].msg = ResetMsg

\* C6: a write sends Reset exactly when the address is the channel's fourth
\* register, and then as the last message of the burst and only once; a voice that
\* has just applied Reset has its envelope at counter 15 and divider rate + 1, its
\* length counter at the reload count and (squares) its sweep at the original
\* period with counter 0.
C6_ResetOnFourthRegister ==
    /\ op.name \in WriteOps =>
          /\ (\E i \in 1 .. Len(emitted) : emitted[i].msg = ResetMsg)
                <=> op.addr \in FourthRegisters
          /\ \A i \in 1 .. Len(emitted) :
                emitted[i].msg = ResetMsg => (i = Len(emitted) /\ emitted[i].last)
    /\ \A c \in {1, 2} :
          aud[c].last = "Reset" =>
              /\ square[c].envelope.counter = 15
              /\ square[c].envelope.division_period = square[c].envelope.rate + 1
              /\ square[c].length_counter.counter = square[c].length_counter.count
              /\ square[c].sweep.frequency = square[c].sweep.org_freq
              /\ square[c].sweep.counter = 0
    /\ aud[3].last = "Reset" =>
          triangle.length_counter.counter = triangle.length_counter.count
    /\ aud[4].last = "Reset" =>
          /\ noise.envelope.counter = 15
          /\ noise.envelope.division_period = noise.envelope.rate + 1
          /\ noise.length_counter.counter = noise.length_counter.count

\* square 1 has applied the Reset of a write to $4003 that followed a sequencer step
C6_Witness ==
    /\ op.name = "write1ch" /\ op.addr = 16387
    /\ aud[1].last = "Reset"
    /\ nsteps = 1
    /\ square[1].sweep.org_freq > 0
    /\ square[1].length_counter.count = LengthOf(op.value \div 8)

(***************************************************************************)
(* The sequencer: ticks, frame-counter writes and status reads, from       *)
(* construction, for a bounded number of sequencer steps.  A handler is    *)
(* called when the callbacks have drained the sends of the one before: the *)
(* sequencer never reads the queues, and the interleavings of sends and    *)
(* callbacks are the subject of the bridge specification.                  *)
(***************************************************************************)
SeqNext ==
    \/ \E c \in TickCycles : Quiet /\ nsteps < MaxSteps /\ Tick(c)
    \/ \E v \in FrameValues : Quiet /\ WriteFrameCounter(v)
    \/ \E d \in SeqStatusValues : Quiet /\ WriteStatus(d)
    \/ Quiet /\ ReadStatus
    \/ Send
    \/ \E c \in Channels : AudioRecv(c)

SpecSeq == Init /\ [][SeqNext]_vars

(***************************************************************************)
(* The cycle accumulator: ticks of 0, 1 and 255 cycles and frame-counter   *)
(* writes, from construction, for a bounded number of sequencer steps.     *)
(***************************************************************************)
AccCycles == {0, 1, 255}

\* the byte written to $4017: mode 5 with bit 6 clear (construction leaves $C0)
AccFrameValues == {128}

AccNext ==
    \/ \E c \in AccCycles : Quiet /\ nsteps < MaxAccSteps /\ Tick(c)
    \/ \E v \in AccFrameValues : Quiet /\ WriteFrameCounter(v)
    \/ Send
    \/ \E c \in Channels : AudioRecv(c)

SpecAcc == Init /\ [][AccNext]_vars

\* the last handler call was a tick that made a sequencer step
LastStep == op.name = "tick" /\ op.step # 0

\* the handler being called in this step (op.seq alternates with every call)
Calling(name) == op'.seq # op.seq /\ op'.name = name

HasTick(t) == \E i \in 1 .. Len(emitted) : emitted[i].msg.type = t

\* C1: in mode 4 the k-th step since the last frame-counter write or wrap
\* (k = 1..4) sends an envelope tick, sends a length-counter tick and a sweep tick
\* exactly when k is 2 or 4, and at k = 4 sets status bit 6 and resets the index.
C1_Mode4Sequence ==
    (LastStep /\ FrameCounterMode(frame_counter) = 4) =>
        LET k == ((since.steps - 1) % 4) + 1
        IN  /\ op.step = k
            /\ HasTick("EnvelopeTick")
            /\ HasTick("LengthCounterTick") <=> k \in {2, 4}
            /\ HasTick("SweepTick") <=> k \in {2, 4}
            /\ k = 4 => (Bit(status, 6) = 1 /\ counter = 0)
            /\ k # 4 => counter = k

\* the fourth step after a write selecting mode 4 has raised the frame IRQ
C1_Witness ==
    /\ LastStep /\ FrameCounterMode(frame_counter) = 4
    /\ since.steps = 4 /\ op.step = 4
    /\ Bit(status, 6) = 1 /\ counter = 0
    /\ HasTick("LengthCounterTick")

\* C2: in mode 5 the k-th step (k = 1..5) sends a length-counter tick and a sweep
\* tick exactly when k is 1 or 3, an envelope tick exactly when k <= 4, nothing at
\* k = 5, where the index is reset; and no tick changes the status byte.
C2_Steps ==
    (LastStep /\ FrameCounterMode(frame_counter) = 5) =>
        LET k == ((since.steps - 1) % 5) + 1
        IN  /\ op.step = k
            /\ HasTick("LengthCounterTick") <=> k \in {1, 3}
            /\ HasTick("SweepTick") <=> k \in {1, 3}
            /\ HasTick("EnvelopeTick") <=> k <= 4
            /\ k = 5 => (emitted = <<>> /\ counter = 0)
            /\ k # 5 => counter = k

C2_Mode5Sequence ==
    /\ []C2_Steps
    /\ [][(Calling("tick") /\ FrameCounterMode(frame_counter) = 5)
             => status' = status]_vars

\* the fifth step of mode 5 has sent nothing and left the frame IRQ clear
C2_Witness ==
    /\ LastStep /\ FrameCounterMode(frame_counter) = 5
    /\ since.steps = 5 /\ op.step = 5
    /\ emitted = <<>> /\ counter = 0
    /\ Bit(status, 6) = 0

\* C7: read_status returns the status byte as it was before the read and clears
\* bit 6 only; a read that follows step 4 of mode 4 returns bit 6 set, and a read
\* that follows a read returns the same byte with bit 6 cleared.
C7_ReadClearsFrameIrq ==
    [][Calling("read_status") =>
          /\ op'.res = status
          /\ status' = ClearBit(status, 6)
          /\ (LastStep /\ op.step = 4 /\ FrameCounterMode(frame_counter) = 4)
                => Bit(op'.res, 6) = 1
          /\ op.name = "read_status" => op'.res = ClearBit(op.res, 6)]_vars

\* a read has returned the frame IRQ together with other status bits and cleared it
C7_Witness ==
    /\ op.name = "read_status"
    /\ op.res = 223
    /\ status = 159
    /\ nsteps >= 4

\* C9: a write of the frame counter sets the accumulator and the step index to 0;
\* no step is made before 7457 further cycles have been passed to tick, and the
\* first step made is step 1 of the mode the write selected.
C9_FrameCounterWriteResets ==
    /\ op.name = "write_frame_counter" =>
          (cycles = 0 /\ counter = 0 /\ frame_counter = op.value)
    /\ since.steps = 0 => (since.cyc < Interval /\ counter = 0)
    /\ (LastStep /\ since.steps = 1) =>
          /\ op.step = 1
          /\ since.cyc >= Interval
          /\ HasTick("EnvelopeTick")
          /\ HasTick("LengthCounterTick") <=> FrameCounterMode(frame_counter) = 5

\* the first step after a write made in the middle of a sequence, selecting mode 4
C9_Witness ==
    /\ LastStep /\ since.steps = 1 /\ op.step = 1
    /\ nsteps >= 3
    /\ FrameCounterMode(frame_counter) = 4
    /\ ~HasTick("LengthCounterTick")

(***************************************************************************)
(* The status register: writes of every byte and reads, from construction. *)
(***************************************************************************)
StatusNext ==
    \/ \E d \in StatusValues : Quiet /\ WriteStatus(d)
    \/ Quiet /\ ReadStatus
    \/ Send
    \/ \E c \in Channels : AudioRecv(c)

SpecStatus == Init /\ [][StatusNext]_vars

\* C8: for every byte s, a read of the status register that follows a write of s
\* returns s with bit 5 cleared, and a read that follows a read returns bit 6 clear.
C8_StatusReadBack ==
    [][Calling("read_status") =>
          /\ op.name = "write_status" => op'.res = ClearBit(op.value, 5)
          /\ op.name = "read_status" => Bit(op'.res, 6) = 0]_vars

(***************************************************************************)
(* The length counters: from construction, writes of the first and of the  *)
(* fourth register of every channel and length-counter ticks.              *)
(***************************************************************************)
\* the first registers ($4000, $4004, $4008, $400C) and the bytes written to
\* them: 0 enables the length counter of every channel, 160 disables it
FirstRegisters == {16384, 16388, 16392, 16396}
LenFirstValues == {0, 160}

\* the bytes written to the fourth registers: every length index in bits 3-7
LenFourthValues == {(8 * l) + (l % 8) : l \in 0 .. 31}

LenWrite(a, v) ==
    \/ a \in Ch1Addrs /\ Write1ch(a, v)
    \/ a \in Ch2Addrs /\ Write2ch(a, v)
    \/ a \in Ch3Addrs /\ Write3ch(a, v)
    \/ a \in Ch4Addrs /\ Write4ch(a, v)

RegisterOf(c) ==
    IF c = 1 THEN ch1_register
    ELSE IF c = 2 THEN ch2_register
    ELSE IF c = 3 THEN ch3_register ELSE ch4_register

\* the channel of a register address $4000-$400F
ChannelOf(a) == ((a - 16384) \div 4) + 1

\* the fourth register of a channel is written once the first register has
\* enabled its length counter
LenNext ==
    \/ \E a \in FirstRegisters, v \in LenFirstValues :
          Quiet /\ nops < MaxWrites /\ LenWrite(a, v)
    \/ \E a \in FourthRegisters, v \in LenFourthValues :
          /\ Quiet /\ nops < MaxWrites
          /\ RegisterOf(ChannelOf(a)).key_off_counter_flag
          /\ LenWrite(a, v)
    \/ Quiet /\ LengthTick
    \/ Send
    \/ \E c \in Channels : AudioRecv(c)

SpecLen == Init /\ [][LenNext]_vars

(***************************************************************************)
(* The envelope and the sweep of square 1: from construction, writes of    *)
(* its four registers, envelope ticks and sweep ticks.                     *)
(***************************************************************************)
\* $4000: rate 0 and rate 2, each with loop_flag clear and set (bit 5)
\* $4001: disabled with shift 1; enabled with shift 0; enabled, shift 1,
\*        increase, timer 1; enabled, shift 2, decrease, timer 0
\* $4002, $4003: the periods $005, $0C8 and $700 (and $705, $7C8)
VoiceValues(a) ==
    CASE a = 16384 -> {0, 2, 32, 34}
      [] a = 16385 -> {1, 128, 145, 138}
      [] a = 16386 -> {5, 200}
      [] a = 16387 -> {7}

VoiceNext ==
    \/ \E a \in Ch1Addrs : \E v \in VoiceValues(a) :
          Quiet /\ nops < MaxWrites /\ Write1ch(a, v)
    \/ Quiet /\ EnvelopeTickCall
    \/ Quiet /\ SweepTickCall
    \/ Send
    \/ \E c \in Channels : AudioRecv(c)

SpecVoice == Init /\ [][VoiceNext]_vars

\* the length counter of the voice of channel c
LengthCounterOf(c) ==
    IF c \in {1, 2} THEN square[c].length_counter
    ELSE IF c = 3 THEN triangle.length_counter ELSE noise.length_counter

\* a message of channel c that is no tick is still to be sent or to be applied
ConfigPending(c) ==
    \/ \E i \in pc + 1 .. Len(emitted) :
          emitted[i].ch = c /\ emitted[i].msg.type # "LengthCounterTick"
    \/ \E i \in 1 .. Len(queue[c]) : queue[c][i].msg.type # "LengthCounterTick"

\* the last register write of channel c was to its fourth register and is applied
\* (only that write ends with Reset), and the length counter is enabled
Loaded(c) ==
    /\ aud[c].cfg = "Reset"
    /\ ~ConfigPending(c)
    /\ LengthCounterOf(c).enabled

\* C10: for every channel, once the write of the fourth register carrying the
\* length index L is applied with the length counter enabled and no later write to
\* the channel, mute() is true exactly when at least TABLE[L] length-counter ticks
\* have been applied since; L is in 0..31.
C10_LengthCounterMute ==
    \A c \in Channels :
        Loaded(c) =>
            LET L == RegisterOf(c).key_off_count
            IN  /\ L \in 0 .. 31
                /\ LengthCounterOf(c).count = LengthOf(L)
                /\ LengthCounterMute(LengthCounterOf(c)) <=> aud[c].ticks >= LengthOf(L)

\* the noise voice has just been muted by the 127th tick after a write of index 1
C10_Witness ==
    /\ Loaded(4)
    /\ ch4_register.key_off_count = 1
    /\ aud[4].ticks = 127
    /\ LengthCounterMute(noise.length_counter)

(***************************************************************************)
(* Register writes seen from the queues.                                   *)
(***************************************************************************)
\* the handler called in this step is a write of the byte to the address that the
\* handler before it wrote
SameWriteAgain ==
    /\ op.name \in WriteOps \cup {"write_status"}
    /\ Calling(op.name)
    /\ op'.addr = op.addr
    /\ op'.value = op.value

\* C11: two successive writes of the same byte to the same register ($4000-$400F,
\* $4015) send the same messages to the same channels in the same order.
C11_SameWriteSameBurst == [][SameWriteAgain => emitted' = emitted]_vars

\* square 1 has been sent the five messages of a write to $4003 twice over, and
\* the period written is not zero
C11_Witness ==
    /\ op.name = "write1ch" /\ op.addr = 16387 /\ op.value = 181
    /\ Len(log[1].sent) = 10
    /\ \A i \in 1 .. 5 : log[1].sent[i] = log[1].sent[i + 5]
    /\ log[1].sent[4].sweep.org_freq = 1280

\* C12: a write of d to $4015 sends exactly one Enable to each of the four
\* channels, carrying bit 0 of d for square 1, bit 1 for square 2, bit 2 for the
\* triangle and bit 3 for noise, and sends nothing else.
C12_StatusEnables ==
    op.name = "write_status" =>
        /\ Len(emitted) = 4
        /\ \A c \in Channels :
               \E i \in 1 .. 4 :
                   /\ emitted[i].ch = c
                   /\ emitted[i].msg = EnableMsg(Bit(op.value, c - 1) = 1)
                   /\ \A j \in 1 .. 4 : emitted[j].ch = c => j = i

\* the write of $15 has enabled square 1 and the triangle and disabled the others
C12_Witness ==
    /\ op.name = "write_status" /\ op.value = 21
    /\ Quiet /\ pc = Len(emitted)
    /\ square[1].enabled /\ ~square[2].enabled /\ triangle.enabled /\ ~noise.enabled

(***************************************************************************)
(* The noise shift registers: from construction, a write of $400E selects  *)
(* the mode and a period, and the callback of the noise voice then clocks  *)
(* the register of that mode.                                              *)
(***************************************************************************)
\* bytes written to $400E: period index 3 in long mode and in short mode
LfsrModeValues == {3, 131}

\* the phase of NoiseWave::callback wraps (the note has a frequency above 0): the
\* register of the note's mode is clocked once
NoiseClock ==
    /\ Quiet /\ Idle
    /\ noise.note.hz_div # 0
    /\ nclock < MaxClocks
    /\ IF noise.note.is_long
       THEN long_random' = NoiseRandomNext(long_random) /\ short_random' = short_random
       ELSE short_random' = NoiseRandomNext(short_random) /\ long_random' = long_random
    /\ nclock' = nclock + 1
    /\ UNCHANGED <<apuvars, cpuvars>>

LfsrNext ==
    \/ \E v \in LfsrModeValues : Quiet /\ nclock = 0 /\ nops < MaxOps /\ Write4ch(16398, v)
    \/ Send
    \/ AudioRecv(4)
    \/ NoiseClock

SpecLfsr == Init /\ [][LfsrNext]_vars

\* C13: from the seed 1, the register of the long mode (tap bit 1) is back at the
\* seed after 32767 calls of next() and not before, and the register of the short
\* mode (tap bit 6) after 93 calls and not before; the outputs, bit 0 of the
\* register, repeat with it.
C13_LfsrPeriods ==
    nclock > 0 =>
        IF noise.note.is_long
        THEN /\ long_random.bit = 1
             /\ long_random.value = 1 <=> nclock % 32767 = 0
        ELSE /\ short_random.bit = 6
             /\ short_random.value = 1 <=> nclock % 93 = 0

\* the long register is back at the seed for the first time
C13_Witness ==
    /\ noise.note.is_long
    /\ nclock = 32767
    /\ long_random = NoiseRandomLong
    /\ short_random = NoiseRandomShort

(***************************************************************************)
(* The CPU: steps of cpu_proc and calls of the stack and memory functions. *)
(***************************************************************************)
\* the CPU variables as a state record
CpuState ==
    [cpu_reg |-> cpu_reg, cpu_p_reg |-> cpu_p_reg, cpu_pc |-> cpu_pc,
     nes_mem |-> nes_mem, panic |-> cpu_op.panic]

\* the CPU variables become the state c after the operation name(addr, val), which
\* returned res
CpuCall(name, addr, val, res, c) ==
    /\ ~cpu_op.panic
    /\ cpu_reg' = c.cpu_reg
    /\ cpu_p_reg' = c.cpu_p_reg
    /\ cpu_pc' = c.cpu_pc
    /\ nes_mem' = c.nes_mem
    /\ cpu_op' = [name |-> name, seq |-> 1 - cpu_op.seq, addr |-> addr, val |-> val,
                  res |-> res, sp |-> cpu_reg.SP, steps |-> cpu_op.steps + 1,
                  panic |-> c.panic]
    /\ UNCHANGED <<apuvars, lfsrvars, overflow_checks>>

\* the byte at the program counter is an opcode of the table above, or the fetch
\* panics
Fetchable ==
    LET op_code == MemRead(nes_mem, cpu_pc)
    IN  op_code.ok => op_code.val \in DOMAIN Opcodes

\* one call of cpu_proc: addr is the program counter and val the opcode fetched
CpuProc ==
    /\ cpu_op.steps < MaxCpuSteps
    /\ Fetchable
    /\ CpuCall("cpu_proc", cpu_pc, MemRead(nes_mem, cpu_pc).val, 0,
               CpuProcOf(CpuState, overflow_checks))

\* a call of reset()
ResetCall ==
    /\ cpu_op.steps < MaxCpuSteps
    /\ CpuCall("reset", 0, 0, 0, Reset(CpuState))

\* a call of push_stack(data): addr is the address written
PushStackCall(data) ==
    /\ cpu_op.steps < MaxMemOps
    /\ CpuCall("push_stack", 256 + cpu_reg.SP, data, 0,
               PushStack(CpuState, data, overflow_checks))

\* a call of pop_stack(): addr is the address read, res the byte returned
PopStackCall ==
    /\ cpu_op.steps < MaxMemOps
    /\ LET r == PopStack(CpuState, overflow_checks)
       IN  CpuCall("pop_stack", 256 + cpu_reg.SP, 0, r.val, r.c)

\* a call of mem_write(address, data)
MemWriteCall(address, data) ==
    /\ cpu_op.steps < MaxMemOps
    /\ LET w == MemWrite(nes_mem, address, data)
       IN  CpuCall("mem_write", address, data, 0,
                   [CpuState EXCEPT !.nes_mem = w.mem, !.panic = ~w.ok])

\* a call of mem_read(address): res is the byte returned
MemReadCall(address) ==
    /\ cpu_op.steps < MaxMemOps
    /\ LET r == MemRead(nes_mem, address)
       IN  CpuCall("mem_read", address, 0, r.val, [CpuState EXCEPT !.panic = ~r.ok])

\* the CPU operation being executed in this step
CpuCalling(name) == cpu_op'.seq # cpu_op.seq /\ cpu_op'.name = name

\* cpu_proc is executing the instruction with this opcode byte in this step, and
\* executes it without a panic
Executing(op_code) ==
    CpuCalling("cpu_proc") /\ cpu_op'.val = op_code /\ ~cpu_op'.panic

\* the APU and the noise registers as constructed
ApuFresh ==
    /\ Fresh
    /\ cycles = 0
    /\ since = [cyc |-> 0, steps |-> 0]
    /\ log = NoLog
    /\ RandomFresh

(***************************************************************************)
(* The CPU executing programs: the program of cpu_test_func, the programs  *)
(* LDA #a; CLC; ADC #b, and programs of one instruction started with       *)
(* register and flag values that a program can set up (LDA, LDX, LDY, TXS, *)
(* PHA, PLP), in a build with and in a build without overflow checks.      *)
(***************************************************************************)
\* the CPU after reset() with these registers and flags and this PRG-ROM
LoadedCpu(v, a, x, y, p) ==
    [Reset(RP2A03New) EXCEPT !.cpu_reg.A = a, !.cpu_reg.X = x, !.cpu_reg.Y = y,
                            !.cpu_p_reg = p, !.nes_mem.prg_rom = v]

\* the same with the PRG-ROM holding the bytes of rom
ProgramCpu(rom, a, x, y, p) == LoadedCpu(Vec(rom), a, x, y, p)

\* LDA #a; CLC; ADC #b
AdcRom(a, b) == <<169, a, 24, 105, b>>

\* the second operands of the additions: no carry, carry out of bit 7, carry into
\* bit 7 with and without unsigned carry
AdcOperands == {0, 1, 2, 127, 128, 255}

\* SEC SED SEI CLC CLD CLI CLV
FlagOpcodes == {56, 248, 120, 24, 216, 88, 184}

\* TAX TAY TXA TYA TSX TXS NOP PHA PLA PHP PLP BRK RTI RTS
ImpliedOpcodes == {170, 168, 138, 152, 186, 154, 234, 72, 104, 8, 40, 0, 64, 96}

\* LDA LDX LDY ORA EOR AND with an immediate operand
ImmediateOpcodes == {169, 162, 160, 9, 73, 41}

\* LSR A, NOP zero page, NOP absolute
OperandOpcodes == {74, 4, 12}

\* immediate operands: zero, a byte with bit 7 clear, bytes with bit 7 set
ImmediateValues == {0, 68, 160, 186}

\* register values: zero, the values of the test program, a byte with bit 7 set
RegisterValues == {0, 10, 11, 171}

\* status bytes of the data programs: R alone, R with Z, R with N, every flag but R
DataFlags == {32, 34, 160, 223}

\* JSR $8006; NOP; NOP; NOP; RTS
JsrRom == <<32, 6, 128, 234, 234, 234, 96>>

\* a PRG-ROM that fills $8000-$FFFF: BRK at $8000, RTI at $8090, 0 elsewhere,
\* the reset vector $FFFC/$FFFD = $00, $80 and the IRQ/BRK vector
\* $FFFE/$FFFF = $90, $80
BrkRom ==
    [len |-> 32768,
     at |-> [i \in {144, 32765, 32766, 32767} |->
                CASE i = 144 -> 64
                  [] i = 32766 -> 144
                  [] OTHER -> 128]]

\* the operand bytes of JMP: $8000, $8034, $1200, $1234
JmpTargets == {0, 52} \X {128, 18}

CpuInits ==
    {TestCpu}
    \cup {ProgramCpu(AdcRom(a, b), 0, 0, 0, StatusRegisterNew) :
             a \in 0 .. 255, b \in AdcOperands}
    \cup {ProgramCpu(<<o>>, 11, 10, 171, p) : o \in FlagOpcodes, p \in 0 .. 255}
    \cup {ProgramCpu(<<o>>, r[1], r[2], r[3], p) :
             o \in ImpliedOpcodes,
             r \in RegisterValues \X RegisterValues \X RegisterValues,
             p \in DataFlags}
    \cup {ProgramCpu(<<o, i>>, a, 10, 11, p) :
             o \in ImmediateOpcodes, i \in ImmediateValues, a \in RegisterValues,
             p \in DataFlags}
    \cup {ProgramCpu(<<o, 16, 0>>, a, 10, 11, p) :
             o \in OperandOpcodes, a \in RegisterValues, p \in DataFlags}
    \cup {ProgramCpu(<<76, b[1], b[2]>>, 0, 0, 0, StatusRegisterNew) : b \in JmpTargets}
    \cup {ProgramCpu(JsrRom, 0, 0, 0, StatusRegisterNew)}
    \cup {LoadedCpu(BrkRom, 0, 0, 0, StatusRegisterNew)}

CpuInit ==
    /\ ApuFresh
    /\ \E c \in CpuInits : CpuIs(c)
    /\ overflow_checks \in BOOLEAN

SpecCpu == CpuInit /\ [][CpuProc]_vars

(***************************************************************************)
(* The CPU stepped and reset: programs started as cpu_reset starts them    *)
(* (registers of reset(), P = R or R with V), with reset() called between  *)
(* any two steps.                                                          *)
(***************************************************************************)
\* PHA; PLP / PHP; PLP / PLP / RTI / an STP opcode followed by SEC; NOP
RunRoms ==
    {<<72, 40>>, <<8, 40>>, <<40>>, <<64>>} \cup {<<o, 56, 234>> : o \in StpOpcodes}

RunInits ==
    {TestCpu, LoadedCpu(BrkRom, 0, 0, 0, StatusRegisterNew)}
    \cup {ProgramCpu(rom, 0, 0, 0, StatusRegisterNew) : rom \in RunRoms}

RunInit ==
    /\ ApuFresh
    /\ \E c \in RunInits : CpuIs(c)
    /\ overflow_checks \in BOOLEAN

RunNext == CpuProc \/ ResetCall

SpecRun == RunInit /\ [][RunNext]_vars

(***************************************************************************)
(* The stack: push_stack and pop_stack called on the CPU after reset(),    *)
(* from every stack pointer.                                               *)
(***************************************************************************)
\* bytes pushed
PushValues == {66}

StackInit ==
    /\ ApuFresh
    /\ \E sp \in 0 .. 255 : CpuIs([Reset(RP2A03New) EXCEPT !.cpu_reg.SP = sp])
    /\ overflow_checks \in BOOLEAN

StackNext ==
    \/ \E v \in PushValues : PushStackCall(v)
    \/ PopStackCall

SpecStack == StackInit /\ [][StackNext]_vars

(***************************************************************************)
(* The memory map: mem_write and mem_read called on the memory after       *)
(* construction.                                                           *)
(***************************************************************************)
\* addresses of the work RAM, $0000-$07FF, and their three mirrors
WramAddrs == {0, 511, 2047}

\* the ends of the PPU registers $2000-$2007, of the 2048 bytes above $2000, of
\* the rest of the window up to $3FFF, of the APU registers $4000-$4017 and of
\* $4018-$401F
IoAddrs == {8192, 8199, 8200, 10239, 10240, 16383, 16384, 16407, 16408, 16415}

MemAddrs == {x + (2048 * k) : x \in WramAddrs, k \in 0 .. 3} \cup IoAddrs

\* bytes written
MemValues == {90, 165}

MemInit ==
    /\ ApuFresh
    /\ CpuIs(Reset(RP2A03New))
    /\ overflow_checks \in BOOLEAN

MemNext ==
    \/ \E a \in MemAddrs, v \in MemValues : MemWriteCall(a, v)
    \/ \E a \in MemAddrs : MemReadCall(a)

SpecMem == MemInit /\ [][MemNext]_vars

(***************************************************************************)
(* Properties of the CPU.                                                  *)
(***************************************************************************)
\* the program
Rom == nes_mem.prg_rom

\* the program is LDA #a; CLC; ADC #b and its three instructions are executed
AdcDone ==
    /\ Rom.len = 5
    /\ Cell(Rom.at, 0) = 169 /\ Cell(Rom.at, 2) = 24 /\ Cell(Rom.at, 3) = 105
    /\ cpu_op.steps = 3

\* C14: for all bytes a and b, after LDA #a; CLC; ADC #b, A = (a + b) mod 256,
\* C = (a + b >= 256) and V = ((a ^ r) & (b ^ r) & $80) # 0, r being the result.
C14_AdcImmediate ==
    AdcDone =>
        LET a == Cell(Rom.at, 1)
            b == Cell(Rom.at, 4)
            r == (a + b) % 256
        IN  /\ ~cpu_op.panic
            /\ cpu_reg.A = r
            /\ GetStatusFlg(cpu_p_reg, CARRY_FLG) <=> (a + b >= 256)
            /\ GetStatusFlg(cpu_p_reg, OVERFLOW_FLG)
                  <=> (BitAnd(BitAnd(BitXor(a, r), BitXor(b, r)), 128) # 0)

\* the addresses of the stack page, $0100-$01FF
StackPage == 256 .. 511

\* C15: for every byte v and every stack pointer, 0 and $FF included, push_stack(v)
\* followed by pop_stack() returns v and leaves SP as it was before the push; SP
\* wraps modulo 256 and both accesses are inside $0100-$01FF.
C15_PushPopRoundTrip ==
    [][/\ CpuCalling("push_stack") =>
             /\ ~cpu_op'.panic
             /\ cpu_reg'.SP = (cpu_reg.SP + 255) % 256
             /\ cpu_op'.addr \in StackPage
       /\ (cpu_op.name = "push_stack" /\ CpuCalling("pop_stack")) =>
             /\ ~cpu_op'.panic
             /\ cpu_op'.res = cpu_op.val
             /\ cpu_reg'.SP = cpu_op.sp
             /\ cpu_op'.addr \in StackPage]_vars

\* the addresses of the work RAM and of its mirrors, $0000-$1FFF
WramWindow == 0 .. 8191

\* C16: a byte written by mem_write to an address of $0000-$07FF is returned by
\* mem_read from each of its three mirrors, and a byte written through a mirror
\* is returned from the address itself: a read of $0000-$1FFF that follows a
\* write of $0000-$1FFF to the same offset modulo $0800 returns the byte written.
C16_WramMirrors ==
    [][(/\ cpu_op.name = "mem_write"
        /\ cpu_op.addr \in WramWindow
        /\ CpuCalling("mem_read")
        /\ cpu_op'.addr \in WramWindow
        /\ cpu_op'.addr % 2048 = cpu_op.addr % 2048)
       => (~cpu_op'.panic /\ cpu_op'.res = cpu_op.val)]_vars

\* the third mirror of $01FF has returned the byte that a write stored at $01FF
C16_Witness ==
    /\ cpu_op.name = "mem_read" /\ cpu_op.addr = 511 + (3 * 2048)
    /\ cpu_op.res = 165
    /\ Cell(nes_mem.wram, 511) = 165
    /\ ~cpu_op.panic

\* the status byte after the flag instruction with opcode o, by the bit it names:
\* SEC, SED, SEI set and CLC, CLD, CLI, CLV clear C (bit 0), D (3), I (2), V (6)
FlagInstruction(o, p) ==
    CASE o = 56 -> SetBit(p, 0)
      [] o = 248 -> SetBit(p, 3)
      [] o = 120 -> SetBit(p, 2)
      [] o = 24 -> ClearBit(p, 0)
      [] o = 216 -> ClearBit(p, 3)
      [] o = 88 -> ClearBit(p, 2)
      [] o = 184 -> ClearBit(p, 6)

\* the program of cpu_test_func has been stepped n times
TestStepped(n) == Rom = Vec(TestRom) /\ cpu_op.steps = n /\ ~cpu_op.panic

WithZN(p, v) ==
    LET z == IF v = 0 THEN SetBit(p, 1) ELSE ClearBit(p, 1)
    IN  IF Bit(v, 7) = 1 THEN SetBit(z, 7) ELSE ClearBit(z, 7)

\* the immediate operand of the instruction at the program counter
Immediate == MemRead(nes_mem, cpu_pc + 1).val

\* LDA #imm, TAX, TAY, TXA, TYA
MoveOpcodes == {169, 170, 168, 138, 152}

\* the byte moved by the instruction with opcode o and the registers after it
Moved(o) ==
    CASE o = 169 -> Immediate
      [] o \in {170, 168} -> cpu_reg.A
      [] o = 138 -> cpu_reg.X
      [] o = 152 -> cpu_reg.Y

MovedTo(o) ==
    CASE o \in {169, 138, 152} -> [cpu_reg EXCEPT !.A = Moved(o)]
      [] o = 170 -> [cpu_reg EXCEPT !.X = Moved(o)]
      [] o = 168 -> [cpu_reg EXCEPT !.Y = Moved(o)]

\* C18: LDA #imm loads the immediate byte into A; TAX, TAY, TXA, TYA copy the
\* source register into the destination and leave the other registers as they
\* were; each of them sets Z iff the byte moved is 0 and N to its bit 7; the
\* program A9 0A AA 8A A9 0B A8 98 ends with A = $0B, X = $0A, Y = $0B.
C18_LoadsAndTransfers ==
    /\ [][\A o \in MoveOpcodes :
             (CpuCalling("cpu_proc") /\ cpu_op'.val = o) =>
                 /\ ~cpu_op'.panic
                 /\ cpu_reg' = MovedTo(o)
                 /\ cpu_p_reg' = WithZN(cpu_p_reg, Moved(o))]_vars
    /\ [](TestStepped(13) => (cpu_reg.A = 11 /\ cpu_reg.X = 10 /\ cpu_reg.Y = 11))

\* ORA, EOR, AND with an immediate operand
LogicOpcodes == {9, 73, 41}

\* the result of the instruction with opcode o
LogicResult(o) ==
    CASE o = 9 -> BitOr(cpu_reg.A, Immediate)
      [] o = 73 -> BitXor(cpu_reg.A, Immediate)
      [] o = 41 -> BitAnd(cpu_reg.A, Immediate)

\* C19: ORA, EOR and AND with an immediate operand store the bitwise result in A
\* and set Z iff the result is 0 and N to its bit 7; from A = $0B the program
\* 09 A0 49 BA 29 44 gives A = $AB, then $11, then $00 with Z set and N clear.
C19_LogicImmediate ==
    /\ [][\A o \in LogicOpcodes :
             (CpuCalling("cpu_proc") /\ cpu_op'.val = o) =>
                 /\ ~cpu_op'.panic
                 /\ cpu_reg' = [cpu_reg EXCEPT !.A = LogicResult(o)]
                 /\ cpu_p_reg' = WithZN(cpu_p_reg, LogicResult(o))]_vars
    /\ [](/\ TestStepped(13) => cpu_reg.A = 11
          /\ TestStepped(14) => cpu_reg.A = 171
          /\ TestStepped(15) => cpu_reg.A = 17
          /\ TestStepped(16) =>
                /\ cpu_reg.A = 0
                /\ GetStatusFlg(cpu_p_reg, ZERO_FLG)
                /\ ~GetStatusFlg(cpu_p_reg, NEGATIVE_FLG))

\* the steps of cpu_test_func: one for each byte of the program but one
TestSteps == Len(TestRom) - 1

\* C20: stepped as in the unit test (reset, V set, PC = $8000, the test program,
\* one step for each byte of the program but one, so that JMP $8000 is taken and
\* the first flag instructions run again), the CPU ends with A = $00, X = $0A,
\* Y = $0B and P = $20; JMP abs sets PC to b0 | (b1 << 8); and the instructions
\* after CLV up to the jump leave no flag but R set.
C20_UnitTest ==
    /\ TestStepped(TestSteps) =>
          /\ cpu_reg.A = 0 /\ cpu_reg.X = 10 /\ cpu_reg.Y = 11
          /\ cpu_p_reg = R_FLG
    /\ \A n \in 7 .. 17 : TestStepped(n) => cpu_p_reg = R_FLG
    /\ (cpu_op.name = "cpu_proc" /\ cpu_op.val = 76) =>
          /\ ~cpu_op.panic
          /\ cpu_pc = MemRead(nes_mem, cpu_op.addr + 1).val
                      + (256 * MemRead(nes_mem, cpu_op.addr + 2).val)

\* the last step of the unit test, the second CLI, is executed
C20_Witness ==
    /\ TestStepped(TestSteps)
    /\ TestSteps = 23
    /\ cpu_op.val = 88 /\ cpu_op.addr = ADDR_PRG_ROM + 5
    /\ cpu_reg = [A |-> 0, X |-> 10, Y |-> 11, SP |-> 255]
    /\ cpu_p_reg = 32

\* the byte of the stack page at stack pointer sp, and the stack pointer n above sp
StackAt(mem, sp) == Cell(mem.wram, 256 + sp)

SpPlus(sp, n) == (sp + n) % 256

\* the program has been stepped n times without a panic
Stepped(rom, n) == Rom = rom /\ cpu_op.steps = n /\ ~cpu_op.panic

\* C21: JSR abs at address p pushes the high byte and then the low byte of p + 2
\* and sets PC to its operand word; RTS pops the low and then the high byte and
\* sets PC to that word + 1, with SP two above; for 20 06 80 at $8000 the stack
\* holds $80, $02 after JSR, and RTS at $8006 returns to $8003 with SP restored.
C21_JsrRts ==
    /\ [][/\ (CpuCalling("cpu_proc") /\ cpu_op'.val = 32) =>
                /\ ~cpu_op'.panic
                /\ StackAt(nes_mem', cpu_reg.SP) = (cpu_pc + 2) \div 256
                /\ StackAt(nes_mem', SpPlus(cpu_reg.SP, 255)) = (cpu_pc + 2) % 256
                /\ cpu_reg'.SP = SpPlus(cpu_reg.SP, 254)
                /\ cpu_pc' = MemRead(nes_mem, cpu_pc + 1).val
                             + (256 * MemRead(nes_mem, cpu_pc + 2).val)
          /\ (CpuCalling("cpu_proc") /\ cpu_op'.val = 96) =>
                /\ ~cpu_op'.panic
                /\ cpu_pc' = StackAt(nes_mem, SpPlus(cpu_reg.SP, 1))
                             + (256 * StackAt(nes_mem, SpPlus(cpu_reg.SP, 2))) + 1
                /\ cpu_reg'.SP = SpPlus(cpu_reg.SP, 2)]_vars
    /\ [](/\ Stepped(Vec(JsrRom), 1) =>
                /\ StackAt(nes_mem, 255) = 128 /\ StackAt(nes_mem, 254) = 2
                /\ cpu_pc = ADDR_PRG_ROM + 6
          /\ Stepped(Vec(JsrRom), 2) => (cpu_pc = ADDR_PRG_ROM + 3 /\ cpu_reg.SP = 255))

\* C22: with the vector $FFFE/$FFFF = $90, $80 and I clear, BRK at $8000 pushes
\* $80, then $02, then P with B set, sets I and sets PC to $8090; RTI executed
\* there restores P (R set, I clear again) and sets PC to $8002 with SP as it was
\* before BRK.
C22_BrkRti ==
    /\ Stepped(BrkRom, 1) =>
          /\ StackAt(nes_mem, 255) = 128
          /\ StackAt(nes_mem, 254) = 2
          /\ StackAt(nes_mem, 253) = SetBit(StatusRegisterNew, 4)
          /\ cpu_reg.SP = 252
          /\ GetStatusFlg(cpu_p_reg, INTERRUPT_DISABLE_FLG)
          /\ cpu_pc = 32912
    /\ Stepped(BrkRom, 2) =>
          /\ ClearBit(cpu_p_reg, 4) = StatusRegisterNew
          /\ cpu_pc = ADDR_PRG_ROM + 2
          /\ cpu_reg.SP = 255
    /\ (Rom = BrkRom /\ cpu_op.steps \in {1, 2}) => ~cpu_op.panic

\* C23: reset(), called in any state, leaves A = X = Y = 0, SP = $FF, P = $20
\* and PC equal to the little-endian word at $FFFC/$FFFD.
C23_Reset ==
    cpu_op.name = "reset" =>
        /\ ~cpu_op.panic
        /\ cpu_reg = [A |-> 0, X |-> 0, Y |-> 0, SP |-> 255]
        /\ cpu_p_reg = R_FLG
        /\ cpu_pc = MemRead(nes_mem, 65532).val + (256 * MemRead(nes_mem, 65533).val)

\* C24: bit 5 (R) of the status register is 1 in every reachable state of the CPU,
\* also after PLP or RTI has popped a byte whose bit 5 is 0.
C24_RAlwaysSet == Bit(cpu_p_reg, 5) = 1

\* C25: once an STP opcode is executed the CPU is halted: every later step
\* leaves PC, the registers, the flags and the memory as they are, until reset()
\* is called.
C25_StpHalts ==
    [][(/\ cpu_op.name = "cpu_proc"
        /\ cpu_op.val \in StpOpcodes
        /\ CpuCalling("cpu_proc"))
       => (/\ ~cpu_op'.panic
           /\ cpu_pc' = cpu_pc
           /\ cpu_reg' = cpu_reg
           /\ cpu_p_reg' = cpu_p_reg
           /\ nes_mem' = nes_mem)]_vars

\* C26: mem_read and mem_write of an address in $4018-$401F fail, and every
\* address of $0000-$1FFF, of the PPU window $2000-$3FFF and of $4000-$4017 is
\* read and written without a failure.
C26_MemoryWindows ==
    cpu_op.name \in {"mem_read", "mem_write"} =>
        /\ cpu_op.addr \in 16408 .. 16415 => cpu_op.panic
        /\ cpu_op.addr \in 0 .. 16407 => ~cpu_op.panic

\* the callback of square 1 is applying a message of this type in this step
Applying1(type) ==
    /\ queue[1] # <<>>
    /\ Head(queue[1]).msg.type = type
    /\ queue'[1] = Tail(queue[1])

\* the envelope after a tick as the specification describes it
TickedEnvelope(e) ==
    IF e.division_period - 1 # 0
    THEN [e EXCEPT !.division_period = e.division_period - 1]
    ELSE [e EXCEPT !.division_period = e.rate + 1,
                   !.counter = IF e.counter # 0 THEN e.counter - 1
                               ELSE IF e.loop_flag THEN 15 ELSE 0]

\* C27: Envelope.tick() decrements the divider; only when the divider reaches 0
\* it reloads the divider to rate + 1 and decrements the decay counter when that
\* is non-zero, or reloads it to 15 when it is 0 and loop_flag is set; with
\* loop_flag clear a counter at 0 stays 0, with loop_flag set the counter goes
\* 15, 14, .., 0, 15, one change every rate + 1 ticks (the divider stays in
\* 1 .. rate + 1).
C27_EnvelopeTick ==
    /\ [][Applying1("EnvelopeTick") =>
             /\ square'[1].envelope = TickedEnvelope(square[1].envelope)
             /\ (square[1].envelope.counter = 0 /\ ~square[1].envelope.loop_flag)
                => square'[1].envelope.counter = 0
             /\ square'[1].envelope.counter # square[1].envelope.counter
                => /\ square[1].envelope.division_period = 1
                   /\ square'[1].envelope.division_period = square[1].envelope.rate + 1
                   /\ square'[1].envelope.counter =
                         (square[1].envelope.counter + 15) % 16]_vars
    /\ [](/\ square[1].envelope.division_period \in 1 .. square[1].envelope.rate + 1
          /\ square[1].envelope.counter \in 0 .. 15)

\* the envelope of rate 2 with loop_flag set has gone from 0 back to 15
C27_Witness ==
    /\ aud[1].last = "EnvelopeTick"
    /\ square[1].envelope.loop_flag
    /\ square[1].envelope.rate = 2
    /\ square[1].envelope.counter = 15
    /\ square[1].envelope.division_period = 3

\* the period after an update of the sweep as the specification describes it
SweptPeriod(s) ==
    LET f == IF s.direction = 1
             THEN s.frequency - (s.frequency \div Pow2(s.change_amount))
             ELSE s.frequency + (s.frequency \div Pow2(s.change_amount))
    IN  IF f < 8 \/ f >= 2047 THEN 0 ELSE f

C29_SweepPeriodRange ==
    \A c \in {1, 2} :
        \/ square[c].sweep.frequency = 0
        \/ square[c].sweep.frequency \in 8 .. 2046

\* C30: for the calls tick(c), 0 <= c <= 255, made since the last write of the
\* frame counter (or construction), S being the sum of their c: the sequencer
\* steps taken are S div 7457 and the accumulator is S mod 7457, so the
\* accumulator is below 7457 after every call, and one call makes at most one
\* step.
C30_Accumulator ==
    /\ [][Calling("tick") => since'.steps \in {since.steps, since.steps + 1}]_vars
    /\ [](/\ since.steps = since.cyc \div 7457
          /\ cycles = since.cyc % 7457
          /\ cycles < 7457)

\* a tick of 255 cycles has made the second step since the frame counter was
\* written, and cycles are left over in the accumulator
C30_Witness ==
    /\ op.name = "tick" /\ op.value = 255 /\ op.step # 0
    /\ since.steps = 2
    /\ since.cyc >= 2 * 7457
    /\ cycles > 0
    /\ nops > 0 /\ frame_counter # 0

\* C31: after a write of lo to $400A or of hi to $400B, the Note sent to the
\* triangle voice carries the period of the triangle's own registers, whose low
\* byte is lo and whose bits 8-10 are hi & 7, whatever the other channels hold.
C31_TriangleNotePeriod ==
    (op.name = "write3ch" /\ op.addr \in {16394, 16395}) =>
        /\ op.addr = 16394 => ch3_register.frequency % 256 = op.value
        /\ op.addr = 16395 => ch3_register.frequency \div 256 = op.value % 8
        /\ Len(emitted) >= 1
        /\ emitted[1].ch = 3
        /\ emitted[1].msg.type = "Note"
        /\ emitted[1].msg.note.frequency = ch3_register.frequency

\* C32: a write of any byte to any address of a channel's window through the
\* entry of that channel ($4000-$4003 write1ch, $4004-$4007 write2ch,
\* $4008-$400B write3ch, $400C-$400F write4ch) does not fail and is followed by
\* the sends of the channel.
C32_WritesAccepted ==
    op.name \in WriteOps =>
        /\ ~panicked
        /\ emitted # <<>>
        /\ \A i \in 1 .. Len(emitted) : emitted[i].ch = ChannelOf(op.addr)

(***************************************************************************)
(* The samples: from construction, register writes, $4015 writes and       *)
(* length-counter ticks, with every callback draining its queue and        *)
(* writing samples at any moment; the samples of one voice are recorded.   *)
(***************************************************************************)
OutInit ==
    /\ \E c \in Channels : Constructed({c})
    /\ cycles = 0
    /\ since = [cyc |-> 0, steps |-> 0]
    /\ log = NoLog
    /\ RandomFresh
    /\ CpuIs(TestCpu)
    /\ overflow_checks = FALSE

\* the writes: $08 to a first register enables the length counter (and the
\* envelope, at volume 15) with the length 5, $18 to $4003 selects the length 1
OutWrites == {<<16384, 8>>, <<16387, 24>>, <<16392, 8>>, <<16396, 8>>}

\* the bytes written to $4015: every voice disabled, every voice enabled
OutStatusValues == {0, 15}

OutNext ==
    \/ \E w \in OutWrites : Quiet /\ nops < MaxWrites /\ LenWrite(w[1], w[2])
    \/ \E d \in OutStatusValues : Quiet /\ WriteStatus(d)
    \/ Quiet /\ LengthTick
    \/ Send
    \/ \E c \in Channels : AudioRecv(c)
    \/ \E c \in Channels : AudioSample(c)

SpecOut == OutInit /\ [][OutNext]_vars

\* the voice of channel c is silenced: disabled, or its length counter mutes
Silenced(c) == ~VoiceOf(c).enabled \/ LengthCounterMute(VoiceOf(c).length_counter)

\* C33: the sample a square, triangle or noise voice writes after the drain is 0
\* whenever its enable flag is false or its length counter is muting, whatever
\* the envelope, duty, phase and shift-register output; the enable flag changes
\* only when an Enable message is applied and then takes the value it carries, so
\* after Enable(false) every sample is 0 until Enable(true) is applied.
C33_SilencedSample ==
    /\ [](\A c \in Channels : (aud[c].fresh /\ Silenced(c)) => aud[c].x = 0)
    /\ [][\A c \in Channels :
            VoiceOf(c).enabled' # VoiceOf(c).enabled =>
                /\ queue[c] # <<>>
                /\ Head(queue[c]).msg.type = "Enable"
                /\ VoiceOf(c).enabled' = Head(queue[c]).msg.enable]_vars

\* square 1, enabled and at volume 15, was sampled with its length counter at 0
C33_Witness ==
    /\ aud[1].fresh /\ aud[1].x = 0
    /\ square[1].enabled
    /\ LengthCounterMute(square[1].length_counter)
    /\ EnvelopeVolume(square[1].envelope) = 15

\* the operand bytes that follow the opcode byte, by addressing mode
C34_OperandLength(addr_mode) ==
    CASE addr_mode \in {"ACC", "IMPL"} -> 0
      [] addr_mode \in {"IMM", "ZPG", "ZpgX", "ZpgY", "IndX", "IndY", "REL"} -> 1
      [] addr_mode \in {"ABS", "AbsX", "AbsY", "IND"} -> 2

\* C34: after an instruction that is no jump, call, return or interrupt, the
\* program counter is the one before plus 1 plus the operand length of the
\* addressing mode (0 for accumulator and implied, 1 for immediate and zero
\* page, 2 for absolute); NOP changes nothing but the program counter.
C34_PcAdvance ==
    [][(CpuCalling("cpu_proc") /\ ~cpu_op'.panic
            /\ cpu_op'.val \in DOMAIN Opcodes
            /\ Opcodes[cpu_op'.val][1] \notin {"JMP", "JSR", "RTS", "RTI", "BRK"}) =>
          /\ cpu_pc' = (cpu_pc + 1 + C34_OperandLength(Opcodes[cpu_op'.val][2])) % 65536
          /\ Opcodes[cpu_op'.val][1] = "NOP" =>
                /\ cpu_reg' = cpu_reg
                /\ cpu_p_reg' = cpu_p_reg
                /\ nes_mem' = nes_mem]_vars

\* C35: under every interleaving of tick and write_frame_counter the step
\* index between two calls is in 0..3 in mode 4 and in 0..4 in mode 5; a step
\* brings it to at most 4 in mode 4 and 5 in mode 5, where the wrap test resets
\* it; the mode is 4 or 5 and the arm for any other mode is never taken.
C35_StepIndexRange ==
    LET m == FrameCounterMode(frame_counter)
    IN  /\ ~panicked
        /\ m \in {4, 5}
        /\ m = 4 => counter \in 0 .. 3
        /\ m = 5 => counter \in 0 .. 4
        /\ LastStep =>
              /\ op.step \in 1 .. m
              /\ counter = (IF op.step = m THEN 0 ELSE op.step)

\* the fourth step of mode 4 wrapped the index, the mode having been written
\* after two steps of mode 5
C35_Witness ==
    /\ LastStep
    /\ FrameCounterMode(frame_counter) = 4
    /\ op.step = 4
    /\ counter = 0
    /\ since.steps = 4
    /\ nsteps = 6

(***************************************************************************)
(* The frame IRQ: the sequencer specification with calls of irq().         *)
(***************************************************************************)
IrqNext ==
    \/ SeqNext
    \/ Quiet /\ IrqCall

SpecIrq == Init /\ [][IrqNext]_vars

\* C36: in mode 4 the step that brings the index to 4 sets status bit 6 whatever
\* bit 6 of the frame-counter register; bit 6 of the status, once set, is cleared
\* only by a read or a write of $4015 (ticks and frame-counter writes keep it);
\* irq() returns true exactly when status bit 6 is set and changes nothing.
C36_FrameIrq ==
    /\ [](op.name = "irq" => (op.res = 1 <=> Bit(status, 6) = 1))
    /\ [][/\ (Calling("tick") /\ op'.step = 4 /\ FrameCounterMode(frame_counter) = 4)
                => Bit(status', 6) = 1
          /\ (Bit(status, 6) = 1 /\ Bit(status', 6) = 0)
                => (Calling("read_status") \/ Calling("write_status"))
          /\ Calling("irq") =>
                /\ UNCHANGED <<ch1_register, ch2_register, ch3_register, ch4_register,
                               frame_counter, status, cycles, counter, panicked, queue,
                               square, triangle, noise>>
                /\ emitted' = <<>>]_vars

\* irq() returned true in mode 4 with bit 6 of the frame-counter register set,
\* after the fourth step and a frame-counter write that followed it
C36_Witness ==
    /\ op.name = "irq" /\ op.res = 1
    /\ frame_counter = 64
    /\ since.steps = 0
    /\ nsteps = 4

\* the channels a tick of each kind goes to, and the place of the kind in a step
C37_Targets(t) ==
    CASE t = "EnvelopeTick" -> {1, 2, 4}
      [] t = "LengthCounterTick" -> {1, 2, 3, 4}
      [] t = "SweepTick" -> {1, 2}

C37_Rank(t) ==
    CASE t = "LengthCounterTick" -> 1
      [] t = "SweepTick" -> 2
      [] t = "EnvelopeTick" -> 3

RestartValues(a) ==
    CASE a = 16396 -> {2, 47}
      [] a = 16398 -> {133}
      [] a = 16399 -> {24}

RestartNext ==
    \/ VoiceNext
    \/ \E a \in {16396, 16398, 16399} : \E v \in RestartValues(a) :
          Quiet /\ nops < MaxWrites /\ Write4ch(a, v)

SpecRestart == Init /\ [][RestartNext]_vars

\* the burst of the last handler call is sent and applied
Applied(c) == ~panicked /\ pc = Len(emitted) /\ queue[c] = <<>>

Envelopes ==
    {square[1].envelope, square[2].envelope, noise.envelope}
    \cup {queue[c][i].msg.envelope :
             <<c, i>> \in {x \in Channels \X (1 .. 8) :
                              /\ x[2] <= Len(queue[x[1]])
                              /\ queue[x[1]][x[2]].msg.type = "Envelope"}}

\* C39: every envelope built by a register write (rate of 4 bits) or at
\* construction and then ticked and reset any number of times has its decay
\* counter in 0 .. 15 and its divider in 1 .. rate + 1: the decrement of the
\* divider never goes below 0 and rate + 1 never exceeds a byte.
C39_EnvelopeRanges ==
    \A e \in Envelopes :
        /\ e.rate \in 0 .. 15
        /\ e.counter \in 0 .. 15
        /\ e.division_period \in 1 .. e.rate + 1
        /\ e.division_period - 1 >= 0
        /\ e.rate + 1 <= 255

\* the envelope of the noise voice, written with rate 2 and loop_flag clear, has
\* decayed to 0 and its divider is about to reach 0 again
C39_Witness ==
    /\ aud[4].last = "EnvelopeTick"
    /\ noise.envelope.rate = 2
    /\ ~noise.envelope.loop_flag
    /\ noise.envelope.counter = 0
    /\ noise.envelope.division_period = 1

(***************************************************************************)
(* The first registers: writes of $4000, $4004 and $400C, from             *)
(* construction.                                                           *)
(***************************************************************************)
EnvelopeRegisters == {16384, 16388, 16396}

\* the bytes written: duty 0 and 3, every value of bits 4 and 5, rates 0, 5, 15
FirstBytes == {(64 * d) + (16 * h) + l : d \in {0, 3}, h \in 0 .. 3, l \in {0, 5, 15}}

FirstNext ==
    \/ \E a \in EnvelopeRegisters, v \in FirstBytes :
          Quiet /\ nops < MaxWrites /\ LenWrite(a, v)
    \/ Send
    \/ \E c \in Channels : AudioRecv(c)

SpecFirst == Init /\ [][FirstNext]_vars

\* the envelope and the length counter of the voice of channel c (1, 2 or 4)
EnvelopeOf(c) == IF c \in {1, 2} THEN square[c].envelope ELSE noise.envelope

\* C40: a write of the byte v to $4000, $4004 or $400C sends a length counter
\* that is enabled exactly when bit 5 of v is 0 and an envelope whose loop_flag
\* is set exactly when bit 5 is 1 (so exactly one of the two holds), that is
\* enabled exactly when bit 4 is 0 and whose rate is v & $0F; the voice holds
\* them once the burst is applied.
C40_FirstRegisterBits ==
    (op.name \in WriteOps /\ op.addr \in EnvelopeRegisters) =>
        LET v == op.value
            c == ChannelOf(op.addr)
            Sent(t) == {i \in 1 .. Len(emitted) : emitted[i].msg.type = t}
            Holds(e, l) ==
                /\ l.enabled <=> Bit(v, 5) = 0
                /\ e.loop_flag <=> Bit(v, 5) = 1
                /\ l.enabled # e.loop_flag
                /\ e.enabled <=> Bit(v, 4) = 0
                /\ e.rate = v % 16
        IN  /\ Cardinality(Sent("Envelope")) = 1
            /\ Cardinality(Sent("LengthCounter")) = 1
            /\ \A i \in Sent("Envelope"), j \in Sent("LengthCounter") :
                  /\ emitted[i].ch = c /\ emitted[j].ch = c
                  /\ Holds(emitted[i].msg.envelope, emitted[j].msg.length_counter)
            /\ Applied(c) => Holds(EnvelopeOf(c), LengthCounterOf(c))

\* the noise voice has applied the burst of $F5 written to $400C: looping
\* envelope at constant volume 5, length counter disabled
C40_Witness ==
    /\ op.name = "write4ch" /\ op.addr = 16396 /\ op.value = 245
    /\ Applied(4)
    /\ noise.envelope.loop_flag
    /\ ~noise.envelope.enabled
    /\ noise.envelope.rate = 5
    /\ ~noise.length_counter.enabled

====
